---- MODULE Spec2Model ----
(***************************************************************************)
(* Storage protocol client and resumable transfer engine of tlist.         *)
(*                                                                         *)
(* Spec       : the multipart upload orchestrator of routes/home.tsx       *)
(*              (uploadMultipart) against the multipart routes of          *)
(*              routes/api.files.$storageId.$.ts and S3Client.             *)
(* SpecFolder : rename and move of routes/api.files.$storageId.$.ts over   *)
(*              an S3 bucket.                                              *)
(***************************************************************************)
EXTENDS Integers, Sequences, FiniteSets, TLC

(***************************************************************************)
(* Bounds of the model and constants of the program.                       *)
(***************************************************************************)
MaxParts == 6            \* largest totalParts = ceil(file.size / chunkSize)
MaxResumeParts == 3      \* largest totalParts of a file whose upload is interrupted
MaxReloads == 1          \* page reloads (crashes) of the browser tab

CONCURRENT_UPLOADS == 5  \* home.tsx:1269
PROXY_CONCURRENCY == 3   \* home.tsx:1501

NoUploadId == 0          \* `let uploadId: string` before it is assigned
NoRecord == [uploadId |-> NoUploadId, parts |-> <<>>, useDirectUpload |-> TRUE, present |-> FALSE]

Min(a, b) == IF a <= b THEN a ELSE b

Range(s) == {s[i] : i \in 1..Len(s)}

\* the part numbers of a parts list, in list order
PartNumbers(parts) == [i \in 1..Len(parts) |-> parts[i].partNumber]

\* the ETag the backend answers for a stored part (quotes already stripped)
EtagOf(partNumber) == <<"etag", partNumber>>

VARIABLES
    totalParts,     \* Math.ceil(file.size / chunkSize) of the uploaded file
    localStorage,   \* the entry under storageKey: NoRecord or the saved state
    backend,        \* uploadId -> the multipart session held by the storage
    nextUploadId,   \* the next uploadId the backend hands out
    orch,           \* the running uploadMultipart call: locals and position
    reloads,        \* page reloads so far
    bucket,         \* SpecFolder: key -> content of the objects of the bucket
    op,             \* SpecFolder: the running rename/move request
    handle,         \* SpecHandle: the running handleUpload call
    server,         \* SpecClient: key -> content of the resources of the storage
    client,         \* SpecClient: the last call of the storage client
    dav,            \* SpecWebdev: the upload of one file to a WebDAV storage
    zombie,         \* SpecRetry: the workers a failed uploadMultipart left running
    part,           \* SpecPart: the part uploads of one transfer and their results
    sign,           \* SpecSign: two calls of signRequest
    chunks,         \* SpecChunks: the upload queue uploadMultipart builds for a file
    route           \* SpecRoute: the last request to the files route and its answer

uploadVars == <<totalParts, localStorage, backend, nextUploadId, orch, reloads>>
folderVars == <<bucket, op>>
handleVars == <<handle>>
clientVars == <<server, client>>
davVars == <<dav>>
retryVars == <<zombie>>
partVars == <<part>>
signVars == <<sign>>
chunkVars == <<chunks>>
routeVars == <<route>>
vars == <<totalParts, localStorage, backend, nextUploadId, orch, reloads, bucket, op, handle,
          server, client, dav, zombie, part, sign, chunks, route>>

(***************************************************************************)
(* The browser side: uploadMultipart of routes/home.tsx.                   *)
(* JavaScript runs each callback to its next await, so one action is one   *)
(* such run: it ends where a request is left in flight.                    *)
(***************************************************************************)
Workers == 1..CONCURRENT_UPLOADS

Unused == [st |-> "unused", part |-> 0]

\* the locals of uploadMultipart before its first statement
NoUpload ==
    [phase |-> "idle",
     uploadId |-> NoUploadId,
     completedParts |-> <<>>,
     startPart |-> 0,
     useDirectUpload |-> TRUE,
     signedUrls |-> {},
     uploadQueue |-> <<>>,
     index |-> 0,
     workers |-> [w \in Workers |-> Unused],
     completeReq |-> <<>>,
     \* history of the run, read by the properties only
     resumed |-> FALSE,     \* the run took over a saved session
     firstFailed |-> 0]     \* the first part whose direct PUT failed

\* JSON.stringify({uploadId, fileName, parts: completedParts, useDirectUpload})
SavedState(o) ==
    [uploadId |-> o.uploadId, parts |-> o.completedParts,
     useDirectUpload |-> o.useDirectUpload, present |-> TRUE]

\* a queue that repeats the first remaining part
RemainingPartsRepeated(n, startPart) ==
    IF n - startPart <= 0 THEN <<>>
    ELSE [i \in 1..(n - startPart) |-> startPart + 1]

\* remainingParts: Array.from({length: totalParts - startPart}, (_, i) => startPart + i + 1)
RemainingParts(n, startPart) ==
    IF n - startPart <= 0 THEN <<>>
    ELSE [i \in 1..(n - startPart) |-> startPart + i]

\* an uploadPart that does not read useDirectUpload
UploadPartIgnoresMode(o, w, partNumber) ==
    LET mode == IF partNumber \in o.signedUrls THEN "direct" ELSE "proxy"
    IN [o EXCEPT !.workers[w] = [st |-> mode, part |-> partNumber]]

\* uploadPart up to the request it leaves in flight: the direct PUT when the
\* transfer is in direct mode and the part has a signed URL, else the proxy PUT
UploadPart(o, w, partNumber) ==
    LET mode == IF o.useDirectUpload /\ partNumber \in o.signedUrls
                THEN "direct" ELSE "proxy"
    IN [o EXCEPT !.workers[w] = [st |-> mode, part |-> partNumber]]

\* a runNext that reads the queue at index and does not move index on
RunNextKeepsIndex(o, w) ==
    IF o.index < Len(o.uploadQueue)
    THEN UploadPart(o, w, o.uploadQueue[o.index + 1])
    ELSE [o EXCEPT !.workers[w] = [st |-> "finished", part |-> 0]]

\* runNext from the head of its while loop to the next await
RunNext(o, w) ==
    IF o.index < Len(o.uploadQueue)
    THEN UploadPart([o EXCEPT !.index = @ + 1], w, o.uploadQueue[o.index + 1])
    ELSE [o EXCEPT !.workers[w] = [st |-> "finished", part |-> 0]]

\* const concurrency = useDirectUpload ? CONCURRENT_UPLOADS : 3
Concurrency(useDirectUpload) ==
    IF useDirectUpload THEN CONCURRENT_UPLOADS ELSE PROXY_CONCURRENCY

\* a pool of `concurrency` workers whatever the length of the queue
NumWorkersUnbounded(concurrency, queueLength) == concurrency

\* Array(Math.min(concurrency, uploadQueue.length))
NumWorkers(concurrency, queueLength) == Min(concurrency, queueLength)

\* .fill(null).map(() => runNext()): the workers start one after the other
RECURSIVE StartWorkers(_, _, _)
StartWorkers(o, w, n) ==
    IF w > n THEN o ELSE StartWorkers(RunNext(o, w), w + 1, n)

InFlight(o) == {w \in Workers : o.workers[w].st \in {"direct", "proxy"}}
Started(o) == {w \in Workers : o.workers[w].st # "unused"}

\* an await that returns once any one worker has finished
AwaitAny(o) ==
    IF o.phase = "workers" /\ \E w \in Started(o) : o.workers[w].st = "finished"
    THEN [o EXCEPT !.phase = "complete", !.completeReq = o.completedParts]
    ELSE o

\* await Promise.all(workers) returns once every worker has finished; the
\* complete request is then sent with the parts in completion order
AwaitAll(o) ==
    IF o.phase = "workers" /\ \A w \in Started(o) : o.workers[w].st = "finished"
    THEN [o EXCEPT !.phase = "complete", !.completeReq = o.completedParts]
    ELSE o

\* from `const remainingParts` to `await Promise.all(workers)`, given the
\* signed URLs obtained
BeginUploads(o, urls) ==
    LET q == RemainingParts(totalParts, o.startPart)
        o1 == [o EXCEPT !.signedUrls = urls, !.uploadQueue = q, !.index = 0,
                        !.phase = "workers"]
        n == NumWorkers(Concurrency(o1.useDirectUpload), Len(q))
    IN AwaitAll(StartWorkers(o1, 1, n))

(***************************************************************************)
(* The server side: the multipart routes and S3Client.                     *)
(***************************************************************************)
UploadIds == 1..(MaxReloads + 1)

\* reloads are explored for the files of at most MaxResumeParts parts
ReloadBudget(n) == IF n <= MaxResumeParts THEN MaxReloads ELSE 0

NoSession == [state |-> "none", parts |-> {}]

\* a completeMultipartUpload that keeps the order of the request
SortPartsUnsorted(parts) == parts

\* S3Client.completeMultipartUpload: parts.sort((a, b) => a.partNumber - b.partNumber),
\* a stable sort: each part stands behind the parts of a smaller number and
\* behind the earlier parts of its own number
SortParts(parts) ==
    LET at(i) == Cardinality({j \in 1..Len(parts) :
                     \/ parts[j].partNumber < parts[i].partNumber
                     \/ parts[j].partNumber = parts[i].partNumber /\ j <= i})
    IN [k \in 1..Len(parts) |-> parts[CHOOSE i \in 1..Len(parts) : at(i) = k]]

\* the <Part> elements of the CompleteMultipartUpload body, in body order
CompleteMultipartUploadBody(parts) ==
    LET sorted == SortParts(parts)
    IN [i \in 1..Len(sorted) |->
           [PartNumber |-> sorted[i].partNumber, ETag |-> sorted[i].etag]]

\* the storage completes a session when the listed parts are in ascending
\* order and each of them is stored under the ETag listed
BackendAccepts(session, body) ==
    /\ session.state = "open"
    /\ \A i \in 1..Len(body) : body[i].PartNumber \in session.parts
                               /\ body[i].ETag = EtagOf(body[i].PartNumber)
    /\ \A i \in 1..(Len(body) - 1) : body[i].PartNumber < body[i + 1].PartNumber

\* action === "multipart-complete": a request without parts is answered 400
\* before the client is called
CompleteAccepted(uploadId, parts) ==
    /\ uploadId # NoUploadId
    /\ Len(parts) > 0
    /\ BackendAccepts(backend[uploadId], CompleteMultipartUploadBody(parts))

(***************************************************************************)
(* Actions of the upload.                                                  *)
(***************************************************************************)
\* no saved state: the multipart-init request is sent
StartFresh ==
    /\ orch.phase = "idle"
    /\ ~localStorage.present
    /\ orch' = [orch EXCEPT !.phase = "init"]
    /\ UNCHANGED <<totalParts, localStorage, backend, nextUploadId, reloads>>
    /\ UNCHANGED <<folderVars, handleVars, clientVars, davVars, retryVars, partVars, signVars, chunkVars, routeVars>>

\* a resume that keeps the recorded parts and initiates a session again
StartResumeInitiates ==
    /\ orch.phase = "idle"
    /\ localStorage.present
    /\ orch' = [orch EXCEPT !.completedParts = localStorage.parts,
                            !.startPart = Len(localStorage.parts),
                            !.useDirectUpload = localStorage.useDirectUpload,
                            !.resumed = TRUE,
                            !.phase = "init"]
    /\ UNCHANGED <<totalParts, localStorage, backend, nextUploadId, reloads>>
    /\ UNCHANGED <<folderVars, handleVars, clientVars, davVars, retryVars, partVars, signVars, chunkVars, routeVars>>

\* saved state and confirm() answered yes: uploadId, completedParts, startPart
\* and useDirectUpload come from the record; nothing is awaited before the
\* signed URLs are asked for (direct mode) or the workers start (proxy mode)
StartResume ==
    /\ orch.phase = "idle"
    /\ localStorage.present
    /\ LET o1 == [orch EXCEPT !.uploadId = localStorage.uploadId,
                              !.completedParts = localStorage.parts,
                              !.startPart = Len(localStorage.parts),
                              !.useDirectUpload = localStorage.useDirectUpload,
                              !.resumed = TRUE]
       IN orch' = IF o1.useDirectUpload
                  THEN [o1 EXCEPT !.phase = "urls"]
                  ELSE BeginUploads(o1, {})
    /\ UNCHANGED <<totalParts, localStorage, backend, nextUploadId, reloads>>
    /\ UNCHANGED <<folderVars, handleVars, clientVars, davVars, retryVars, partVars, signVars, chunkVars, routeVars>>

\* saved state and confirm() answered no: the multipart-abort request is sent
StartDecline ==
    /\ orch.phase = "idle"
    /\ localStorage.present
    /\ orch' = [orch EXCEPT !.phase = "abort"]
    /\ UNCHANGED <<totalParts, localStorage, backend, nextUploadId, reloads>>
    /\ UNCHANGED <<folderVars, handleVars, clientVars, davVars, retryVars, partVars, signVars, chunkVars, routeVars>>

\* a decline that keeps the record when the abort request fails
AbortResponseKeepsOnFailure ==
    /\ orch.phase = "abort"
    /\ \E ok \in BOOLEAN :
          /\ backend' = IF ok /\ backend[localStorage.uploadId].state = "open"
                        THEN [backend EXCEPT ![localStorage.uploadId] =
                                  [state |-> "aborted", parts |-> {}]]
                        ELSE backend
          /\ localStorage' = IF ok THEN NoRecord ELSE localStorage
    /\ orch' = [orch EXCEPT !.phase = "init"]
    /\ UNCHANGED <<totalParts, nextUploadId, reloads>>
    /\ UNCHANGED <<folderVars, handleVars, clientVars, davVars, retryVars, partVars, signVars, chunkVars, routeVars>>

\* the abort request is over, whatever its outcome: the record is removed and
\* the multipart-init request is sent
AbortResponse ==
    /\ orch.phase = "abort"
    /\ \E ok \in BOOLEAN :
          backend' = IF ok /\ backend[localStorage.uploadId].state = "open"
                     THEN [backend EXCEPT ![localStorage.uploadId] =
                               [state |-> "aborted", parts |-> {}]]
                     ELSE backend
    /\ localStorage' = NoRecord
    /\ orch' = [orch EXCEPT !.phase = "init"]
    /\ UNCHANGED <<totalParts, nextUploadId, reloads>>
    /\ UNCHANGED <<folderVars, handleVars, clientVars, davVars, retryVars, partVars, signVars, chunkVars, routeVars>>

\* multipart-init answered 200: the record of the new session is written
InitOk ==
    /\ orch.phase = "init"
    /\ nextUploadId \in UploadIds
    /\ backend' = [backend EXCEPT ![nextUploadId] = [state |-> "open", parts |-> {}]]
    /\ nextUploadId' = nextUploadId + 1
    /\ LET o1 == [orch EXCEPT !.uploadId = nextUploadId, !.phase = "urls"]
       IN /\ localStorage' = [SavedState(o1) EXCEPT !.parts = <<>>, !.useDirectUpload = TRUE]
          /\ orch' = o1
    /\ UNCHANGED <<totalParts, reloads>>
    /\ UNCHANGED <<folderVars, handleVars, clientVars, davVars, retryVars, partVars, signVars, chunkVars, routeVars>>

\* multipart-init failed: uploadMultipart throws
InitFail ==
    /\ orch.phase = "init"
    /\ orch' = [orch EXCEPT !.phase = "failed"]
    /\ UNCHANGED <<totalParts, localStorage, backend, nextUploadId, reloads>>
    /\ UNCHANGED <<folderVars, handleVars, clientVars, davVars, retryVars, partVars, signVars, chunkVars, routeVars>>

\* multipart-urls answered 200 with one URL per remaining part (an empty
\* partNumbers list is answered 400, which leaves signedUrls empty as well)
UrlsOk ==
    /\ orch.phase = "urls"
    /\ orch' = BeginUploads(orch, Range(RemainingParts(totalParts, orch.startPart)))
    /\ UNCHANGED <<totalParts, localStorage, backend, nextUploadId, reloads>>
    /\ UNCHANGED <<folderVars, handleVars, clientVars, davVars, retryVars, partVars, signVars, chunkVars, routeVars>>

\* multipart-urls failed: every part goes through the proxy, useDirectUpload
\* stays as it was
UrlsFail ==
    /\ orch.phase = "urls"
    /\ orch' = BeginUploads(orch, {})
    /\ UNCHANGED <<totalParts, localStorage, backend, nextUploadId, reloads>>
    /\ UNCHANGED <<folderVars, handleVars, clientVars, davVars, retryVars, partVars, signVars, chunkVars, routeVars>>

\* what runNext does with the result of uploadPart: completedParts.push(result)
\* and localStorage.setItem(storageKey, ...), then the next turn of its loop
Completed(o, w) ==
    LET p == o.workers[w].part
    IN [o EXCEPT !.completedParts = Append(@, [partNumber |-> p, etag |-> EtagOf(p)])]

\* a runNext that leaves the record as it was
PersistNothing(o) == localStorage

\* localStorage.setItem(storageKey, JSON.stringify({...}))
Persist(o) == SavedState(o)

\* a part upload (direct or proxy) of worker w answered 2xx
PartOk(w) ==
    /\ w \in InFlight(orch)
    /\ backend[orch.uploadId].state = "open"
    /\ backend' = [backend EXCEPT ![orch.uploadId].parts = @ \cup {orch.workers[w].part}]
    /\ LET o1 == Completed(orch, w)
       IN /\ localStorage' = Persist(o1)
          /\ orch' = AwaitAll(RunNext(o1, w))
    /\ UNCHANGED <<totalParts, nextUploadId, reloads>>
    /\ UNCHANGED <<folderVars, handleVars, clientVars, davVars, retryVars, partVars, signVars, chunkVars, routeVars>>

\* a catch that retries through the proxy and keeps useDirectUpload
DirectFailedKeepsMode(o, w) ==
    [o EXCEPT !.firstFailed = IF @ = 0 THEN o.workers[w].part ELSE @]

\* the catch of uploadPart: the direct PUT of worker w failed, the transfer
\* switches to proxy mode, saves that, and sends the same part to the proxy
DirectFailed(o, w) ==
    [o EXCEPT !.useDirectUpload = FALSE,
              !.firstFailed = IF @ = 0 THEN o.workers[w].part ELSE @]

\* a failed direct PUT that ends the transfer as a failed proxy PUT does
PartDirectFailIsFatal(w) ==
    /\ orch.workers[w].st = "direct"
    /\ orch' = [orch EXCEPT !.workers[w] = [st |-> "rejected", part |-> @.part],
                            !.phase = IF @ = "workers" THEN "failed" ELSE @]
    /\ UNCHANGED <<totalParts, localStorage, backend, nextUploadId, reloads>>
    /\ UNCHANGED <<folderVars, handleVars, clientVars, davVars, retryVars, partVars, signVars, chunkVars, routeVars>>

\* the direct PUT of worker w failed: the catch of uploadPart runs and its
\* proxy PUT is sent
PartDirectFail(w) ==
    /\ orch.workers[w].st = "direct"
    /\ LET o1 == DirectFailed(orch, w)
       IN /\ localStorage' = Persist(o1)
          /\ orch' = [o1 EXCEPT !.workers[w].st = "proxy"]
    /\ UNCHANGED <<totalParts, backend, nextUploadId, reloads>>
    /\ UNCHANGED <<folderVars, handleVars, clientVars, davVars, retryVars, partVars, signVars, chunkVars, routeVars>>

\* the proxy PUT of worker w failed: uploadPart, runNext and Promise.all
\* reject, uploadMultipart throws; the other workers are not told
PartProxyFail(w) ==
    /\ orch.workers[w].st = "proxy"
    /\ orch' = [orch EXCEPT !.workers[w] = [st |-> "rejected", part |-> @.part],
                            !.phase = IF @ = "workers" THEN "failed" ELSE @]
    /\ UNCHANGED <<totalParts, localStorage, backend, nextUploadId, reloads>>
    /\ UNCHANGED <<folderVars, handleVars, clientVars, davVars, retryVars, partVars, signVars, chunkVars, routeVars>>

\* multipart-complete answered 200: localStorage.removeItem(storageKey)
CompleteOk ==
    /\ orch.phase = "complete"
    /\ CompleteAccepted(orch.uploadId, orch.completeReq)
    /\ backend' = [backend EXCEPT ![orch.uploadId].state = "completed",
                      ![orch.uploadId].parts = Range(PartNumbers(orch.completeReq))]
    /\ localStorage' = NoRecord
    /\ orch' = [orch EXCEPT !.phase = "done"]
    /\ UNCHANGED <<totalParts, nextUploadId, reloads>>
    /\ UNCHANGED <<folderVars, handleVars, clientVars, davVars, retryVars, partVars, signVars, chunkVars, routeVars>>

\* a failed complete request that clears the record as a successful one does
CompleteFailClears ==
    /\ orch.phase = "complete"
    /\ orch' = [orch EXCEPT !.phase = "failed"]
    /\ localStorage' = NoRecord
    /\ UNCHANGED <<totalParts, backend, nextUploadId, reloads>>
    /\ UNCHANGED <<folderVars, handleVars, clientVars, davVars, retryVars, partVars, signVars, chunkVars, routeVars>>

\* multipart-complete failed: uploadMultipart throws, the record stays
CompleteFail ==
    /\ orch.phase = "complete"
    /\ orch' = [orch EXCEPT !.phase = "failed"]
    /\ UNCHANGED <<totalParts, localStorage, backend, nextUploadId, reloads>>
    /\ UNCHANGED <<folderVars, handleVars, clientVars, davVars, retryVars, partVars, signVars, chunkVars, routeVars>>

\* the page is reloaded (or the browser crashes) and the same file is chosen
\* again: the locals are gone, localStorage and the storage stay.  Requests in
\* flight may or may not have reached the storage.
Reload ==
    /\ orch.phase # "idle"
    /\ reloads < ReloadBudget(totalParts)
    /\ reloads' = reloads + 1
    /\ orch' = NoUpload
    /\ \E arrived \in SUBSET {orch.workers[w].part : w \in InFlight(orch)},
          served \in BOOLEAN :
          /\ arrived # {} => backend[orch.uploadId].state = "open"
          /\ served => \/ /\ orch.phase = "complete"
                          /\ CompleteAccepted(orch.uploadId, orch.completeReq)
                       \/ /\ orch.phase = "abort"
                          /\ backend[localStorage.uploadId].state = "open"
          /\ backend' =
               IF served /\ orch.phase = "complete"
               THEN [backend EXCEPT ![orch.uploadId].state = "completed",
                        ![orch.uploadId].parts = Range(PartNumbers(orch.completeReq))]
               ELSE IF served
               THEN [backend EXCEPT ![localStorage.uploadId] =
                        [state |-> "aborted", parts |-> {}]]
               ELSE IF arrived # {}
               THEN [backend EXCEPT ![orch.uploadId].parts = @ \cup arrived]
               ELSE backend
    /\ UNCHANGED <<totalParts, localStorage, nextUploadId>>
    /\ UNCHANGED <<folderVars, handleVars, clientVars, davVars, retryVars, partVars, signVars, chunkVars, routeVars>>

(***************************************************************************)
(* Folder operations: the rename and move branches of the action of        *)
(* routes/api.files.$storageId.$.ts over S3Client, with an empty basePath. *)
(* Paths and keys are sequences of characters.                             *)
(***************************************************************************)
PageSize == 2            \* keys the storage returns in one listing page
MaxKeys == 1000          \* the maxKeys the rename and move branches ask for

EndsWithSlash(s) == Len(s) > 0 /\ s[Len(s)] = "/"

StartsWith(s, prefix) ==
    Len(prefix) <= Len(s) /\ SubSeq(s, 1, Len(prefix)) = prefix

\* s.substring(n)
Substring(s, n) == SubSeq(s, n + 1, Len(s))

\* path.replace(/\/$/, "")
StripTrailingSlash(s) == IF EndsWithSlash(s) THEN SubSeq(s, 1, Len(s) - 1) ELSE s

\* s.lastIndexOf("/") + 1: the length of s up to and with its last slash
ThroughLastSlash(s) ==
    LET at == {i \in 1..Len(s) : s[i] = "/"}
    IN IF at = {} THEN 0 ELSE CHOOSE i \in at : \A j \in at : j <= i

\* S3Client.getFullPath with basePath "": path.replace(/^\//, "")
GetFullPath(path) ==
    IF Len(path) > 0 /\ path[1] = "/" THEN Substring(path, 1) ELSE path

\* the byte order of the characters of the keys
CharRank(c) ==
    CASE c = "&" -> 38 [] c = "/" -> 47 [] c = ";" -> 59 [] c = "<" -> 60
      [] c = "a" -> 97 [] c = "b" -> 98 [] c = "l" -> 108 [] c = "t" -> 116

RECURSIVE KeyLess(_, _)
KeyLess(s, t) ==
    IF Len(s) = 0 THEN Len(t) > 0
    ELSE IF Len(t) = 0 THEN FALSE
    ELSE IF s[1] = t[1] THEN KeyLess(Tail(s), Tail(t))
    ELSE CharRank(s[1]) < CharRank(t[1])

RECURSIVE SortKeys(_)
SortKeys(S) ==
    IF S = {} THEN <<>>
    ELSE LET m == CHOOSE x \in S : \A y \in S : x = y \/ KeyLess(x, y)
         IN <<m>> \o SortKeys(S \ {m})

\* str.replace(/pat/g, rep): every match, left to right, none overlapping
RECURSIVE ReplaceAll(_, _, _)
ReplaceAll(str, pat, rep) ==
    IF Len(str) < Len(pat) THEN str
    ELSE IF SubSeq(str, 1, Len(pat)) = pat
    THEN rep \o ReplaceAll(SubSeq(str, Len(pat) + 1, Len(str)), pat, rep)
    ELSE <<str[1]>> \o ReplaceAll(Tail(str), pat, rep)

\* the text of a key inside <Key>, <Prefix> or <D:displayname>: the storage
\* writes "&", "<" and ">" as entities
RECURSIVE XmlEscape(_)
XmlEscape(str) ==
    IF Len(str) = 0 THEN <<>>
    ELSE (CASE str[1] = "&" -> <<"&", "a", "m", "p", ";">>
            [] str[1] = "<" -> <<"&", "l", "t", ";">>
            [] str[1] = ">" -> <<"&", "g", "t", ";">>
            [] OTHER -> <<str[1]>>) \o XmlEscape(Tail(str))

XmlEscapeEach(keys) == [i \in 1..Len(keys) |-> XmlEscape(keys[i])]

\* decodeXml: five replace calls, "&amp;" first
DecodeXml(str) ==
    LET amp == ReplaceAll(str, <<"&", "a", "m", "p", ";">>, <<"&">>)
        lt == ReplaceAll(amp, <<"&", "l", "t", ";">>, <<"<">>)
        gt == ReplaceAll(lt, <<"&", "g", "t", ";">>, <<">">>)
        quot == ReplaceAll(gt, <<"&", "q", "u", "o", "t", ";">>, <<"\"">>)
    IN ReplaceAll(quot, <<"&", "a", "p", "o", "s", ";">>, <<"'">>)

\* the storage's answer to ListObjectsV2 with an empty delimiter: a page of
\* the keys under fullPrefix in key order, and the token of the next page
ListObjectsV2(objects, fullPrefix, maxKeys, token) ==
    LET all == SortKeys({k \in DOMAIN objects : StartsWith(k, fullPrefix)})
        last == Min(token + Min(maxKeys, PageSize), Len(all))
    IN [Contents |-> XmlEscapeEach(SubSeq(all, token + 1, last)),
        NextContinuationToken |-> IF last < Len(all) THEN last ELSE 0]

\* parseListObjectsResponse: a <Contents> key becomes an object when its name
\* under the listed prefix is neither empty nor ends in "/"; the objects are
\* sorted by name
RECURSIVE ParseContents(_, _)
ParseContents(contents, fullPrefix) ==
    IF Len(contents) = 0 THEN <<>>
    ELSE LET key == DecodeXml(contents[1])
             name == IF StartsWith(key, fullPrefix)
                     THEN Substring(key, Len(fullPrefix)) ELSE key
             rest == ParseContents(Tail(contents), fullPrefix)
         IN IF Len(name) > 0 /\ ~EndsWithSlash(name)
            THEN <<[key |-> key, name |-> name, isDirectory |-> FALSE]>> \o rest
            ELSE rest

RECURSIVE SortByName(_)
SortByName(objs) ==
    IF Len(objs) <= 1 THEN objs
    ELSE LET rest == SortByName(SubSeq(objs, 1, Len(objs) - 1))
             x == objs[Len(objs)]
             k == Cardinality({i \in 1..Len(rest) : ~KeyLess(x.name, rest[i].name)})
         IN SubSeq(rest, 1, k) \o <<x>> \o SubSeq(rest, k + 1, Len(rest))

\* S3Client.listObjects(prefix, "", 1000, continuationToken)
ListObjects(objects, prefix, maxKeys, token) ==
    LET normalizedPrefix == IF Len(prefix) > 0 /\ ~EndsWithSlash(prefix)
                            THEN prefix \o <<"/">> ELSE prefix
        fullPrefix == GetFullPath(normalizedPrefix)
        page == ListObjectsV2(objects, fullPrefix, maxKeys, token)
    IN [objects |-> SortByName(ParseContents(page.Contents, fullPrefix)),
        nextContinuationToken |-> page.NextContinuationToken]

\* the rename branch up to `if (isDirectory)`
RenamePaths(path, newName) ==
    LET isDirectory == EndsWithSlash(path)
        cleanPath == StripTrailingSlash(path)
        parentPath == SubSeq(cleanPath, 1, ThroughLastSlash(cleanPath))
    IN [isDirectory |-> isDirectory,
        newPath |-> parentPath \o newName \o (IF isDirectory THEN <<"/">> ELSE <<>>),
        oldPrefix |-> cleanPath \o <<"/">>,
        newPrefix |-> parentPath \o newName \o <<"/">>]

\* the move branch up to `if (isDirectory)`
MovePaths(path, destPath) ==
    LET isDirectory == EndsWithSlash(path)
        cleanPath == StripTrailingSlash(path)
        fileName == Substring(cleanPath, ThroughLastSlash(cleanPath))
        targetDir == IF EndsWithSlash(destPath) THEN destPath
                     ELSE IF Len(destPath) > 0 THEN destPath \o <<"/">> ELSE <<>>
    IN [isDirectory |-> isDirectory,
        newPath |-> targetDir \o fileName \o (IF isDirectory THEN <<"/">> ELSE <<>>),
        oldPrefix |-> cleanPath \o <<"/">>,
        newPrefix |-> targetDir \o fileName \o <<"/">>]

\* the keys the bucket may hold when the request arrives, each with its own
\* content
SeedKeys ==
    { <<"a", "/">>, <<"a", "/", "a">>, <<"a", "/", "b">>, <<"a", "/", "b", "/">>,
      <<"a", "/", "b", "/", "a">>, <<"b">> }

RequestPaths ==
    { <<"a", "/">>, <<"a", "/", "a">>, <<"a", "/", "b", "/">>, <<"b">>, <<"a">> }

NewNames == { <<"b">>, <<"a">>, <<>>, <<"a", "/", "b">> }

DestPaths == { <<>>, <<"b">>, <<"b", "/">> }

NoOp ==
    [kind |-> "none", pc |-> "idle", path |-> <<>>, isDirectory |-> FALSE,
     newPath |-> <<>>, oldPrefix |-> <<>>, newPrefix |-> <<>>,
     keysToMove |-> <<>>, continuationToken |-> 0, i |-> 0, status |-> 0,
     stack |-> <<>>, keysToDelete |-> <<>>,
     \* history of the request, read by the properties only
     before |-> <<>>, copies |-> 0, deletes |-> 0, failedIn |-> "none"]

\* the bucket after PUT with x-amz-copy-source / after DELETE of a key
PutCopy(objects, sourceKey, destKey) ==
    [k \in DOMAIN objects \cup {destKey} |->
        IF k = destKey THEN objects[sourceKey] ELSE objects[k]]

Remove(objects, key) == [k \in DOMAIN objects \ {key} |-> objects[k]]

\* a newKey that keeps the old prefix behind the new one
NewKeyWholeKey(o, key) == o.newPrefix \o key

\* const newKey = newPrefix + key.substring(oldPrefix.length)
NewKey(o, key) == o.newPrefix \o Substring(key, Len(o.oldPrefix))

\* the `moved` / `deleted` count of the 200 response
Moved(o) == IF o.kind = "rmdir" THEN Len(o.keysToDelete) ELSE Len(o.keysToMove)

\* the catch of the branch: status 500
Throw(o, where) == [o EXCEPT !.pc = "done", !.status = 500, !.failedIn = where]

\* after listAll: the copy loop, then the delete loop, then the delete of the
\* old folder object; a loop over no key sends nothing
AfterList(o) ==
    IF Len(o.keysToMove) > 0
    THEN [o EXCEPT !.pc = "copy", !.i = 1]
    ELSE [o EXCEPT !.pc = "marker", !.deletes = @ + 1]

\* a copy loop that deletes each key right after its copy
AfterCopyInterleaved(o) == [o EXCEPT !.pc = "delete", !.deletes = @ + 1]

\* after a copyObject of the copy loop has returned
AfterCopy(o) ==
    IF o.i < Len(o.keysToMove)
    THEN [o EXCEPT !.i = @ + 1]
    ELSE [o EXCEPT !.pc = "delete", !.i = 1, !.deletes = @ + 1]

\* after a deleteObject of the delete loop has returned
AfterDelete(o) ==
    IF o.i < Len(o.keysToMove)
    THEN [o EXCEPT !.i = @ + 1, !.deletes = @ + 1]
    ELSE [o EXCEPT !.pc = "marker", !.deletes = @ + 1]

\* `if (isDirectory)`: listAll(oldPrefix) sends its first listObjects, the file
\* branch sends copyObject(path, newPath)
Begin(kind, path, t) ==
    [NoOp EXCEPT !.kind = kind, !.path = path, !.isDirectory = t.isDirectory,
                 !.newPath = t.newPath, !.oldPrefix = t.oldPrefix,
                 !.newPrefix = t.newPrefix, !.before = bucket,
                 !.pc = IF t.isDirectory THEN "list" ELSE "copyFile"]

\* POST ?action=rename with body {newName}
RenameRequest(path, newName) ==
    /\ op.pc = "idle"
    /\ op' = IF newName = <<>> \/ "/" \in Range(newName)
             THEN [NoOp EXCEPT !.kind = "rename", !.path = path, !.before = bucket,
                               !.pc = "done", !.status = 400]
             ELSE Begin("rename", path, RenamePaths(path, newName))
    /\ UNCHANGED bucket
    /\ UNCHANGED <<uploadVars, handleVars, clientVars, davVars, retryVars, partVars, signVars, chunkVars, routeVars>>

\* POST ?action=move with body {destPath}
MoveRequest(path, destPath) ==
    /\ op.pc = "idle"
    /\ op' = Begin("move", path, MovePaths(path, destPath))
    /\ UNCHANGED bucket
    /\ UNCHANGED <<uploadVars, handleVars, clientVars, davVars, retryVars, partVars, signVars, chunkVars, routeVars>>

\* a listObjects of listAll returns: its keys are pushed, and the next page is
\* asked for while the result carries a token
ListResponse ==
    /\ op.pc = "list"
    /\ \/ LET r == ListObjects(bucket, op.oldPrefix, MaxKeys, op.continuationToken)
              o1 == [op EXCEPT
                        !.keysToMove = @ \o [j \in 1..Len(r.objects) |-> r.objects[j].key],
                        !.continuationToken = r.nextContinuationToken]
          IN op' = IF o1.continuationToken # 0 THEN o1 ELSE AfterList(o1)
       \/ op' = Throw(op, "list")
    /\ UNCHANGED bucket
    /\ UNCHANGED <<uploadVars, handleVars, clientVars, davVars, retryVars, partVars, signVars, chunkVars, routeVars>>

\* the copyObject of the copy loop returns
CopyResponse ==
    /\ op.pc = "copy"
    /\ LET key == op.keysToMove[op.i]
       IN \/ /\ GetFullPath(key) \in DOMAIN bucket
             /\ bucket' = PutCopy(bucket, GetFullPath(key), GetFullPath(NewKey(op, key)))
             /\ op' = AfterCopy([op EXCEPT !.copies = @ + 1])
          \/ /\ op' = Throw(op, "copy")
             /\ UNCHANGED bucket
    /\ UNCHANGED <<uploadVars, handleVars, clientVars, davVars, retryVars, partVars, signVars, chunkVars, routeVars>>

\* the deleteObject of the delete loop returns
DeleteResponse ==
    /\ op.pc = "delete"
    /\ \/ /\ bucket' = Remove(bucket, GetFullPath(op.keysToMove[op.i]))
          /\ op' = AfterDelete(op)
       \/ /\ op' = Throw(op, "delete")
          /\ UNCHANGED bucket
    /\ UNCHANGED <<uploadVars, handleVars, clientVars, davVars, retryVars, partVars, signVars, chunkVars, routeVars>>

\* the deleteObject(oldPrefix) in its own try/catch returns: status 200
MarkerResponse ==
    /\ op.pc = "marker"
    /\ \E ok \in BOOLEAN :
          bucket' = IF ok THEN Remove(bucket, GetFullPath(op.oldPrefix)) ELSE bucket
    /\ op' = [op EXCEPT !.pc = "done", !.status = 200]
    /\ UNCHANGED <<uploadVars, handleVars, clientVars, davVars, retryVars, partVars, signVars, chunkVars, routeVars>>

\* the copyObject(path, newPath) of the file branch returns
FileCopyResponse ==
    /\ op.pc = "copyFile"
    /\ \/ /\ GetFullPath(op.path) \in DOMAIN bucket
          /\ bucket' = PutCopy(bucket, GetFullPath(op.path), GetFullPath(op.newPath))
          /\ op' = [op EXCEPT !.pc = "deleteFile", !.copies = @ + 1, !.deletes = @ + 1]
       \/ /\ op' = Throw(op, "copy")
          /\ UNCHANGED bucket
    /\ UNCHANGED <<uploadVars, handleVars, clientVars, davVars, retryVars, partVars, signVars, chunkVars, routeVars>>

\* the deleteObject(path) of the file branch returns
FileDeleteResponse ==
    /\ op.pc = "deleteFile"
    /\ \/ /\ bucket' = Remove(bucket, GetFullPath(op.path))
          /\ op' = [op EXCEPT !.pc = "done", !.status = 200]
       \/ /\ op' = Throw(op, "delete")
          /\ UNCHANGED bucket
    /\ UNCHANGED <<uploadVars, handleVars, clientVars, davVars, retryVars, partVars, signVars, chunkVars, routeVars>>

(***************************************************************************)
(* The rmdir branch: DELETE ?action=rmdir.                                 *)
(***************************************************************************)
\* the index of the first "/" of s, 0 when it has none
FirstSlash(s) ==
    LET at == {i \in 1..Len(s) : s[i] = "/"}
    IN IF at = {} THEN 0 ELSE CHOOSE i \in at : \A j \in at : i <= j

\* the storage's answer to ListObjectsV2 with delimiter "/": the keys under
\* fullPrefix with no "/" behind the prefix are <Contents>, the others are
\* rolled up into one <CommonPrefixes> entry through their first "/"; a page
\* holds the next entries in key order, both kinds counted
ListObjectsV2Delimited(objects, fullPrefix, maxKeys, token) ==
    LET under == {k \in DOMAIN objects : StartsWith(k, fullPrefix)}
        rest(k) == Substring(k, Len(fullPrefix))
        contents == {k \in under : FirstSlash(rest(k)) = 0}
        common == {SubSeq(k, 1, Len(fullPrefix) + FirstSlash(rest(k))) :
                      k \in under \ contents}
        all == SortKeys(contents \cup common)
        last == Min(token + Min(maxKeys, PageSize), Len(all))
        page == SubSeq(all, token + 1, last)
    IN [Contents |-> XmlEscapeEach(SelectSeq(page, LAMBDA k : k \in contents)),
        CommonPrefixes |-> XmlEscapeEach(SelectSeq(page, LAMBDA k : k \in common)),
        NextContinuationToken |-> IF last < Len(all) THEN last ELSE 0]

\* parseListObjectsResponse, the <CommonPrefixes> loop: a prefix becomes a
\* directory object when its name under the listed prefix is not empty
RECURSIVE ParsePrefixes(_, _)
ParsePrefixes(prefixes, fullPrefix) ==
    IF Len(prefixes) = 0 THEN <<>>
    ELSE LET p == DecodeXml(prefixes[1])
             name == StripTrailingSlash(IF StartsWith(p, fullPrefix)
                                        THEN Substring(p, Len(fullPrefix)) ELSE p)
             rest == ParsePrefixes(Tail(prefixes), fullPrefix)
         IN IF Len(name) > 0
            THEN <<[key |-> p, name |-> name, isDirectory |-> TRUE]>> \o rest
            ELSE rest

\* objects.sort: directories first, then by name
SortObjects(objs) ==
    SortByName(SelectSeq(objs, LAMBDA x : x.isDirectory))
        \o SortByName(SelectSeq(objs, LAMBDA x : ~x.isDirectory))

\* S3Client.listObjects(prefix, "/", 1000, continuationToken)
ListObjectsDelimited(objects, prefix, maxKeys, token) ==
    LET normalizedPrefix == IF Len(prefix) > 0 /\ ~EndsWithSlash(prefix)
                            THEN prefix \o <<"/">> ELSE prefix
        fullPrefix == GetFullPath(normalizedPrefix)
        page == ListObjectsV2Delimited(objects, fullPrefix, maxKeys, token)
    IN [objects |-> SortObjects(ParseContents(page.Contents, fullPrefix)
                                  \o ParsePrefixes(page.CommonPrefixes, fullPrefix)),
        nextContinuationToken |-> page.NextContinuationToken]

\* a call of listAll(prefix) at its first listObjects
Frame(prefix) ==
    [prefix |-> prefix, continuationToken |-> 0, keys |-> <<>>, dirs |-> <<>>,
     pc |-> "list"]

\* the calls of listAll from the end of a `for` turn to the next await: the
\* next sub-folder is listed, else the next page, else the call returns its
\* keys, which the caller pushes followed by the key of the folder itself
RECURSIVE Unwind(_)
Unwind(stack) ==
    LET n == Len(stack)
        top == stack[n]
    IN IF Len(top.dirs) > 0
       THEN Append(stack, Frame(top.dirs[1]))
       ELSE IF top.continuationToken # 0
       THEN [stack EXCEPT ![n].pc = "list"]
       ELSE IF n = 1
       THEN [stack EXCEPT ![n].pc = "return"]
       ELSE LET caller == stack[n - 1]
            IN Unwind(Append(SubSeq(stack, 1, n - 2),
                   [caller EXCEPT !.keys = @ \o top.keys \o <<caller.dirs[1]>>,
                                  !.dirs = Tail(@)]))

\* a listAll that leaves the loop after its first page
ListedFirstPage(stack, result) ==
    LET n == Len(stack)
        key(j) == result.objects[j].key
        isDir(j) == result.objects[j].isDirectory
        all == [j \in 1..Len(result.objects) |-> j]
        files == SelectSeq(all, LAMBDA j : ~isDir(j))
        dirs == SelectSeq(all, LAMBDA j : isDir(j))
    IN Unwind([stack EXCEPT
           ![n].keys = @ \o [j \in 1..Len(files) |-> key(files[j])],
           ![n].dirs = [j \in 1..Len(dirs) |-> key(dirs[j])],
           ![n].continuationToken = 0,
           ![n].pc = "loop"])

\* the body of the do-while of listAll for one listObjects result
Listed(stack, result) ==
    LET n == Len(stack)
        key(j) == result.objects[j].key
        isDir(j) == result.objects[j].isDirectory
        all == [j \in 1..Len(result.objects) |-> j]
        files == SelectSeq(all, LAMBDA j : ~isDir(j))
        dirs == SelectSeq(all, LAMBDA j : isDir(j))
    IN Unwind([stack EXCEPT
           ![n].keys = @ \o [j \in 1..Len(files) |-> key(files[j])],
           ![n].dirs = [j \in 1..Len(dirs) |-> key(dirs[j])],
           ![n].continuationToken = result.nextContinuationToken,
           ![n].pc = "loop"])

\* path.endsWith("/") ? path : path + "/"
FolderObject(path) == IF EndsWithSlash(path) THEN path ELSE path \o <<"/">>

\* DELETE ?action=rmdir: listAll(path) sends its first listObjects
RmdirRequest(path) ==
    /\ op.pc = "idle"
    /\ op' = [NoOp EXCEPT !.kind = "rmdir", !.path = path, !.isDirectory = TRUE,
                          !.oldPrefix = FolderObject(path), !.before = bucket,
                          !.stack = <<Frame(path)>>, !.pc = "rlist"]
    /\ UNCHANGED bucket
    /\ UNCHANGED <<uploadVars, handleVars, clientVars, davVars, retryVars, partVars, signVars, chunkVars, routeVars>>

\* a listObjects of listAll returns; when the outermost listAll has returned
\* the delete loop starts, and after it the delete of the folder object
RmdirListResponse ==
    /\ op.pc = "rlist"
    /\ \/ LET top == op.stack[Len(op.stack)]
              r == ListObjectsDelimited(bucket, top.prefix, MaxKeys, top.continuationToken)
              stack == Listed(op.stack, r)
          IN op' = IF stack[Len(stack)].pc # "return"
                   THEN [op EXCEPT !.stack = stack]
                   ELSE LET keys == stack[1].keys
                        IN [op EXCEPT !.stack = <<>>, !.keysToDelete = keys,
                                      !.deletes = @ + 1,
                                      !.i = IF Len(keys) > 0 THEN 1 ELSE 0,
                                      !.pc = IF Len(keys) > 0 THEN "rdelete" ELSE "rmarker"]
       \/ op' = Throw(op, "list")
    /\ UNCHANGED bucket
    /\ UNCHANGED <<uploadVars, handleVars, clientVars, davVars, retryVars, partVars, signVars, chunkVars, routeVars>>

\* a deleteObject of the delete loop of rmdir returns
RmdirDeleteResponse ==
    /\ op.pc = "rdelete"
    /\ \/ /\ bucket' = Remove(bucket, GetFullPath(op.keysToDelete[op.i]))
          /\ op' = IF op.i < Len(op.keysToDelete)
                   THEN [op EXCEPT !.i = @ + 1, !.deletes = @ + 1]
                   ELSE [op EXCEPT !.pc = "rmarker", !.deletes = @ + 1]
       \/ /\ op' = Throw(op, "delete")
          /\ UNCHANGED bucket
    /\ UNCHANGED <<uploadVars, handleVars, clientVars, davVars, retryVars, partVars, signVars, chunkVars, routeVars>>

\* the deleteObject of the folder object in its own try/catch returns
RmdirMarkerResponse ==
    /\ op.pc = "rmarker"
    /\ \E ok \in BOOLEAN :
          bucket' = IF ok THEN Remove(bucket, GetFullPath(FolderObject(op.path))) ELSE bucket
    /\ op' = [op EXCEPT !.pc = "done", !.status = 200]
    /\ UNCHANGED <<uploadVars, handleVars, clientVars, davVars, retryVars, partVars, signVars, chunkVars, routeVars>>

(***************************************************************************)
(* handleUpload: the choice between uploadSingle and uploadMultipart for   *)
(* each of the chosen files.                                               *)
(***************************************************************************)
MaxChunkSizeMB == 2      \* largest CHUNK_SIZE_MB of the environment
MaxChunks == 3           \* file sizes go up to MaxChunks chunks and one byte
MaxFiles == 2            \* files chosen in one change event
DEFAULT_CHUNK_SIZE_MB == 50   \* home.tsx:2223

BytesPerMB == 1024 * 1024

\* const chunkSizeMB = loaderData.chunkSizeMB || 50
ChunkSizeMB(loaded) == IF loaded = 0 THEN DEFAULT_CHUNK_SIZE_MB ELSE loaded

\* const CHUNK_SIZE = chunkSizeMB * 1024 * 1024
CHUNK_SIZE(chunkSizeMB) == chunkSizeMB * BytesPerMB

\* a part count that rounds down
TotalPartsFloor(size, chunkSize) == size \div chunkSize

\* Math.ceil(file.size / chunkSize)
TotalParts(size, chunkSize) == (size + chunkSize - 1) \div chunkSize

\* a threshold test that sends a file of exactly CHUNK_SIZE to uploadSingle
UseMultipartAbove(size, chunkSize) == size > chunkSize

\* if (file.size >= CHUNK_SIZE)
UseMultipart(size, chunkSize) == size >= chunkSize

\* the call handleUpload awaits for a file: uploadMultipart(file, uploadPath,
\* CHUNK_SIZE), which splits the file into totalParts parts, or uploadSingle
UploadCall(size, chunkSize) ==
    IF UseMultipart(size, chunkSize)
    THEN [route |-> "uploadMultipart", chunkSize |-> chunkSize,
          totalParts |-> TotalParts(size, chunkSize)]
    ELSE [route |-> "uploadSingle", chunkSize |-> 0, totalParts |-> 0]

\* the file sizes tried: around each multiple of the chunk size
FileSizes(chunkSize) ==
    {k * chunkSize + d : k \in 0..MaxChunks, d \in {-1, 0, 1}} \cap Nat

NoCall == [route |-> "none", chunkSize |-> 0, totalParts |-> 0]

NoHandle == [chunkSizeMB |-> 1, files |-> <<>>, i |-> 0, pc |-> "idle",
             call |-> NoCall, alerts |-> 0]

\* the next turn of `for (const file of Array.from(files))`, up to its await
NextFile(h) ==
    IF h.i < Len(h.files)
    THEN [h EXCEPT !.i = @ + 1, !.pc = "awaiting",
                   !.call = UploadCall(h.files[h.i + 1], CHUNK_SIZE(h.chunkSizeMB))]
    ELSE [h EXCEPT !.pc = "done", !.call = NoCall]

\* the change event of the file input: `if (!files || files.length === 0) return`
HandleUpload ==
    /\ handle.pc = "idle"
    /\ handle' = NextFile(handle)
    /\ UNCHANGED <<uploadVars, folderVars, clientVars, davVars, retryVars, partVars, signVars, chunkVars, routeVars>>

\* the awaited upload resolves: the loop goes on with the next file
UploadResolved ==
    /\ handle.pc = "awaiting"
    /\ handle' = NextFile(handle)
    /\ UNCHANGED <<uploadVars, folderVars, clientVars, davVars, retryVars, partVars, signVars, chunkVars, routeVars>>

\* the awaited upload rejects: the catch alerts, the loop goes on
UploadRejected ==
    /\ handle.pc = "awaiting"
    /\ handle' = NextFile([handle EXCEPT !.alerts = @ + 1])
    /\ UNCHANGED <<uploadVars, folderVars, clientVars, davVars, retryVars, partVars, signVars, chunkVars, routeVars>>

(***************************************************************************)
(* The storage clients: S3Client of lib/s3-client.ts and WebdevClient of   *)
(* lib/webdev-client.ts, one action per call, against the storage the      *)
(* client talks to.  A WebDAV storage holds collections (the keys ending   *)
(* in "/") and files; its keys are made of "a", "b" and "/", which a URL   *)
(* and an href leave as they are.  basePath is empty.                      *)
(***************************************************************************)
ClientTypes == {"s3", "webdev"}

\* response.ok
Ok(status) == status \in 200..299

\* the key of the resource a WebDAV URL names: a collection answers with or
\* without its trailing "/"
Target(objects, fullKey) ==
    IF fullKey \notin DOMAIN objects /\ (fullKey \o <<"/">>) \in DOMAIN objects
    THEN fullKey \o <<"/">> ELSE fullKey

\* the collection a WebDAV resource is a member of
ParentOf(fullKey) ==
    LET k == StripTrailingSlash(fullKey) IN SubSeq(k, 1, ThroughLastSlash(k))

\* the statuses the storage may answer to a request for fullKey: S3 answers
\* 204 to the DELETE of a key it does not hold, WebDAV answers 404; either
\* storage may fail (500) or refuse to be read (403)
Statuses(type, method, objects, fullKey) ==
    LET held == IF type = "s3" THEN fullKey \in DOMAIN objects
                ELSE Target(objects, fullKey) \in DOMAIN objects
        room == ParentOf(fullKey) = <<>> \/ ParentOf(fullKey) \in DOMAIN objects
    IN (CASE method \in {"HEAD", "GET"} -> IF held THEN {200, 403} ELSE {404, 403}
          [] method = "DELETE" -> IF type = "s3" \/ held THEN {204} ELSE {404}
          [] method = "PUT" -> IF type = "s3" \/ room THEN {200} ELSE {409}
          [] method = "MKCOL" -> IF held THEN {405} ELSE IF room THEN {201} ELSE {409})
       \cup {500}

\* the resources of the storage after it has answered the request with status
Stored(type, method, objects, fullKey, status) ==
    IF ~Ok(status) THEN objects
    ELSE CASE method = "DELETE" /\ type = "s3" -> Remove(objects, fullKey)
           [] method = "DELETE" /\ type = "webdev" ->
                LET t == Target(objects, fullKey)
                IN [k \in {x \in DOMAIN objects :
                              x # t /\ ~(EndsWithSlash(t) /\ StartsWith(x, t))} |-> objects[k]]
           [] method \in {"PUT", "MKCOL"} ->
                [k \in DOMAIN objects \cup {fullKey} |->
                    IF k = fullKey THEN fullKey ELSE objects[k]]
           [] OTHER -> objects

\* a headObject that treats 404 as any other failure
HeadObjectThrowsOn404(status) ==
    IF ~Ok(status) THEN "threw" ELSE "returned"

\* headObject of either client after its fetch: null on 404, an error on
\* every other status that is not ok
HeadObject(status) ==
    IF status = 404 THEN "null"
    ELSE IF ~Ok(status) THEN "threw" ELSE "returned"

\* getObject and putObject of either client after their fetch
GetObject(status) == IF ~Ok(status) THEN "threw" ELSE "returned"

\* deleteObject of either client after its fetch:
\* if (!response.ok && response.status !== 204) throw
DeleteObject(status) ==
    IF ~Ok(status) /\ status # 204 THEN "threw" ELSE "returned"

\* the storage's answer to PROPFIND with Depth 1 on a collection: one
\* <response> for the collection and one for each of its members, with or
\* without a <displayname>
Propfind(objects, fullPrefix, named) ==
    LET members == {k \in DOMAIN objects :
                       /\ StartsWith(k, fullPrefix)
                       /\ Len(k) > Len(fullPrefix)
                       /\ FirstSlash(Substring(k, Len(fullPrefix)))
                              \in {0, Len(k) - Len(fullPrefix)}}
        all == SortKeys({fullPrefix} \cup members)
        last(k) == Substring(StripTrailingSlash(k), ThroughLastSlash(StripTrailingSlash(k)))
    IN [i \in 1..Len(all) |->
           [href |-> <<"/">> \o all[i],
            displayname |-> IF named THEN XmlEscape(last(all[i])) ELSE <<>>,
            collection |-> all[i] = <<>> \/ EndsWithSlash(all[i])]]

\* parsePropfindResponse: the name of a <response> is its displayname, else
\* the last segment of its href; the response of the listed collection is
\* skipped; the key is displayPrefix + name, with "/" behind it for a
\* collection when displayPrefix is not empty
ParsePropfindResponse(responses, fullPrefix, displayPrefix) ==
    LET decodedHref(r) == GetFullPath(DecodeXml(r.href))
        fromHref(r) == LET h == StripTrailingSlash(decodedHref(r))
                       IN Substring(h, ThroughLastSlash(h))
        displayName(r) == IF Len(DecodeXml(r.displayname)) > 0
                          THEN DecodeXml(r.displayname) ELSE fromHref(r)
        expectedCurrent == GetFullPath(fullPrefix)
        kept == SelectSeq(responses, LAMBDA r :
                    /\ Len(displayName(r)) > 0
                    /\ decodedHref(r) # expectedCurrent
                    /\ decodedHref(r) # expectedCurrent \o <<"/">>)
        key(r) == IF Len(displayPrefix) > 0 /\ ~r.collection
                  THEN displayPrefix \o displayName(r)
                  ELSE IF Len(displayPrefix) > 0 /\ r.collection
                  THEN displayPrefix \o displayName(r) \o <<"/">>
                  ELSE displayName(r)
    IN SortObjects([i \in 1..Len(kept) |->
           [key |-> key(kept[i]), name |-> displayName(kept[i]),
            isDirectory |-> kept[i].collection]])

\* client.listObjects(prefix, "/", 1000, continuationToken) of either client
ClientListObjects(type, objects, prefix, token, named) ==
    LET normalizedPrefix == IF Len(prefix) > 0 /\ ~EndsWithSlash(prefix)
                            THEN prefix \o <<"/">> ELSE prefix
        fullPrefix == GetFullPath(normalizedPrefix)
        found == fullPrefix = <<>> \/ fullPrefix \in DOMAIN objects
        s3 == ListObjectsDelimited(objects, prefix, MaxKeys, token)
    IN IF type = "s3"
       THEN [status |-> 200, outcome |-> "returned", objects |-> s3.objects,
             nextContinuationToken |-> s3.nextContinuationToken]
       ELSE IF found
       THEN [status |-> 207, outcome |-> "returned",
             objects |-> ParsePropfindResponse(Propfind(objects, fullPrefix, named),
                                               fullPrefix, normalizedPrefix),
             nextContinuationToken |-> 0]
       ELSE [status |-> 404, outcome |-> "threw", objects |-> <<>>,
             nextContinuationToken |-> 0]

\* the resources of the storage when the client is made
ClientSeed ==
    { <<"a", "/">>, <<"a", "/", "a">>, <<"a", "/", "b", "/">>,
      <<"a", "/", "b", "/", "a">>, <<"b">> }

\* the keys and paths the calls are made with
FileKeys(type) ==
    { <<"a", "/", "a">>, <<"b">> }
        \cup (IF type = "s3" THEN {<<"&", "l", "t", ";">>} ELSE {})

FolderPaths == { <<"a">>, <<"b", "/", "a">> }

ListPrefixes == { <<>>, <<"a">>, <<"b", "/">> }

NoClient ==
    [type |-> "s3", pc |-> "idle", call |-> "none", key |-> <<>>, status |-> 0,
     outcome |-> "none", objects |-> <<>>, nextContinuationToken |-> 0,
     stack |-> <<>>, keysToDelete |-> <<>>, i |-> 0, response |-> 0,
     request |-> <<>>]

\* the record of a call of the client that has returned or thrown
Called(call, key, status, outcome) ==
    [NoClient EXCEPT !.type = client.type, !.call = call, !.key = key,
                     !.status = status, !.outcome = outcome]

\* client.listObjects(prefix): the first page
ListCall(prefix) ==
    /\ client.pc = "idle"
    /\ \E named \in BOOLEAN :
          LET r == ClientListObjects(client.type, server, prefix, 0, named)
          IN client' = [Called("listObjects", prefix, r.status, r.outcome) EXCEPT
                           !.objects = r.objects,
                           !.nextContinuationToken = r.nextContinuationToken]
    /\ UNCHANGED server
    /\ UNCHANGED <<uploadVars, folderVars, handleVars, davVars, retryVars, partVars, signVars, chunkVars, routeVars>>

\* client.listObjects(prefix, "/", 1000, nextContinuationToken): the next page
ListNextPage ==
    /\ client.pc = "idle"
    /\ client.call = "listObjects"
    /\ client.nextContinuationToken # 0
    /\ LET r == ClientListObjects(client.type, server, client.key,
                                  client.nextContinuationToken, TRUE)
       IN client' = [Called("listObjects", client.key, r.status, r.outcome) EXCEPT
                        !.objects = r.objects,
                        !.nextContinuationToken = r.nextContinuationToken]
    /\ UNCHANGED server
    /\ UNCHANGED <<uploadVars, folderVars, handleVars, davVars, retryVars, partVars, signVars, chunkVars, routeVars>>

\* client.headObject(key)
HeadCall(key) ==
    /\ client.pc = "idle"
    /\ key \in FileKeys(client.type)
    /\ \E status \in Statuses(client.type, "HEAD", server, GetFullPath(key)) :
          client' = Called("headObject", key, status, HeadObject(status))
    /\ UNCHANGED server
    /\ UNCHANGED <<uploadVars, folderVars, handleVars, davVars, retryVars, partVars, signVars, chunkVars, routeVars>>

\* client.getObject(key)
GetCall(key) ==
    /\ client.pc = "idle"
    /\ key \in FileKeys(client.type)
    /\ \E status \in Statuses(client.type, "GET", server, GetFullPath(key)) :
          client' = Called("getObject", key, status, GetObject(status))
    /\ UNCHANGED server
    /\ UNCHANGED <<uploadVars, folderVars, handleVars, davVars, retryVars, partVars, signVars, chunkVars, routeVars>>

\* client.putObject(key, body)
PutCall(key) ==
    /\ client.pc = "idle"
    /\ key \in FileKeys(client.type)
    /\ \E status \in Statuses(client.type, "PUT", server, GetFullPath(key)) :
          /\ server' = Stored(client.type, "PUT", server, GetFullPath(key), status)
          /\ client' = Called("putObject", key, status, GetObject(status))
    /\ UNCHANGED <<uploadVars, folderVars, handleVars, davVars, retryVars, partVars, signVars, chunkVars, routeVars>>

\* client.createFolder(folderPath): S3Client puts an empty object under the
\* path with a trailing "/", WebdevClient sends MKCOL for it
CreateFolderCall(folderPath) ==
    /\ client.pc = "idle"
    /\ LET normalizedPath == FolderObject(folderPath)
           method == IF client.type = "s3" THEN "PUT" ELSE "MKCOL"
       IN \E status \in Statuses(client.type, method, server, GetFullPath(normalizedPath)) :
             /\ server' = Stored(client.type, method, server,
                                 GetFullPath(normalizedPath), status)
             /\ client' = Called("createFolder", folderPath, status, GetObject(status))
    /\ UNCHANGED <<uploadVars, folderVars, handleVars, davVars, retryVars, partVars, signVars, chunkVars, routeVars>>

\* DELETE without action: client.deleteObject(path), answered 200 or 500
DeleteCall(key) ==
    /\ client.pc = "idle"
    /\ key \in FileKeys(client.type)
    /\ \E status \in Statuses(client.type, "DELETE", server, GetFullPath(key)) :
          /\ server' = Stored(client.type, "DELETE", server, GetFullPath(key), status)
          /\ client' = [Called("deleteObject", key, status, DeleteObject(status)) EXCEPT
                           !.response = IF DeleteObject(status) = "threw" THEN 500 ELSE 200]
    /\ UNCHANGED <<uploadVars, folderVars, handleVars, davVars, retryVars, partVars, signVars, chunkVars, routeVars>>

\* the statuses a WebDAV storage may answer to COPY of the resource at url
\* with the Destination header destination and Overwrite: F: 404 where url
\* names nothing, 403 where source and destination are one resource, 412
\* where the destination exists, 409 where its collection is missing
CopyStatuses(objects, url, destination) ==
    LET from == Target(objects, url)
        to == Target(objects, destination)
        room == ParentOf(destination) = <<>> \/ ParentOf(destination) \in DOMAIN objects
    IN (IF from \notin DOMAIN objects THEN {404}
        ELSE IF from = to THEN {403}
        ELSE IF to \in DOMAIN objects THEN {412}
        ELSE IF ~room THEN {409} ELSE {201})
       \cup {500}

\* the resources of the storage after it has answered the COPY with status
Copied(objects, url, destination, status) ==
    IF ~Ok(status) THEN objects
    ELSE [k \in DOMAIN objects \cup {destination} |->
             IF k = destination THEN objects[Target(objects, url)] ELSE objects[k]]

\* the request WebdevClient.copyObject sends: fetch(destUrl, {method: "COPY",
\* headers: {Destination: destUrl, Overwrite: "F"}})
CopyRequest(sourceKey, destKey) ==
    LET fullSourceKey == GetFullPath(sourceKey)
        fullDestKey == GetFullPath(destKey)
    IN [url |-> fullDestKey, Destination |-> fullDestKey, Overwrite |-> "F",
        sourceKey |-> sourceKey, destKey |-> destKey]

\* copyObject after its fetch:
\* if (!response.ok && response.status !== 201 && response.status !== 204) throw
CopyObject(status) ==
    IF ~Ok(status) /\ status # 201 /\ status # 204 THEN "threw" ELSE "returned"

\* the keys copies are made to
CopyDests == { <<"b">>, <<"c">>, <<"a", "/", "c">> }

\* WebdevClient.copyObject(sourceKey, destKey)
CopyCall(sourceKey, destKey) ==
    /\ client.pc = "idle"
    /\ client.type = "webdev"
    /\ sourceKey \in DOMAIN server
    /\ LET request == CopyRequest(sourceKey, destKey)
       IN \E status \in CopyStatuses(server, request.url, request.Destination) :
             /\ server' = Copied(server, request.url, request.Destination, status)
             /\ client' = [Called("copyObject", sourceKey, status, CopyObject(status))
                               EXCEPT !.request = request]
    /\ UNCHANGED <<uploadVars, folderVars, handleVars, davVars, retryVars, partVars, signVars, chunkVars, routeVars>>

\* DELETE ?action=rmdir: listAll(path) sends its first listObjects
ClientRmdirRequest(path) ==
    /\ client.pc = "idle"
    /\ client' = [Called("rmdir", path, 0, "none") EXCEPT
                     !.stack = <<Frame(path)>>, !.pc = "rlist"]
    /\ UNCHANGED server
    /\ UNCHANGED <<uploadVars, folderVars, handleVars, davVars, retryVars, partVars, signVars, chunkVars, routeVars>>

\* a listObjects of listAll returns or throws (500); when the outermost
\* listAll has returned, the delete loop starts
ClientRmdirListResponse ==
    /\ client.pc = "rlist"
    /\ \E named \in BOOLEAN :
          LET top == client.stack[Len(client.stack)]
              r == ClientListObjects(client.type, server, top.prefix,
                                     top.continuationToken, named)
              stack == Listed(client.stack, r)
              keys == stack[1].keys
          IN client' = IF r.outcome = "threw"
                       THEN [client EXCEPT !.pc = "idle", !.stack = <<>>,
                                           !.status = r.status, !.outcome = "threw",
                                           !.response = 500]
                       ELSE IF stack[Len(stack)].pc # "return"
                       THEN [client EXCEPT !.stack = stack]
                       ELSE [client EXCEPT !.stack = <<>>, !.keysToDelete = keys,
                                           !.i = IF Len(keys) > 0 THEN 1 ELSE 0,
                                           !.pc = IF Len(keys) > 0 THEN "rdelete"
                                                  ELSE "rmarker"]
    /\ UNCHANGED server
    /\ UNCHANGED <<uploadVars, folderVars, handleVars, davVars, retryVars, partVars, signVars, chunkVars, routeVars>>

\* another client of the storage deletes a key while the rmdir request runs
OtherClientDelete(key) ==
    /\ client.pc = "rdelete"
    /\ key \in DOMAIN server
    /\ server' = Stored(client.type, "DELETE", server, key, 204)
    /\ UNCHANGED client
    /\ UNCHANGED <<uploadVars, folderVars, handleVars, davVars, retryVars, partVars, signVars, chunkVars, routeVars>>

\* `for (const key of keysToDelete) await client.deleteObject(key)`: one turn;
\* a deleteObject that throws ends the request with 500
ClientRmdirDeleteResponse ==
    /\ client.pc = "rdelete"
    /\ LET key == GetFullPath(client.keysToDelete[client.i])
       IN \E status \in Statuses(client.type, "DELETE", server, key) :
             /\ server' = Stored(client.type, "DELETE", server, key, status)
             /\ client' = IF DeleteObject(status) = "threw"
                          THEN [client EXCEPT !.pc = "idle", !.status = status,
                                              !.outcome = "threw", !.response = 500]
                          ELSE IF client.i < Len(client.keysToDelete)
                          THEN [client EXCEPT !.i = @ + 1, !.status = status]
                          ELSE [client EXCEPT !.pc = "rmarker", !.status = status]
    /\ UNCHANGED <<uploadVars, folderVars, handleVars, davVars, retryVars, partVars, signVars, chunkVars, routeVars>>

\* the deleteObject of the folder object in its own try/catch, then 200
ClientRmdirMarkerResponse ==
    /\ client.pc = "rmarker"
    /\ LET key == GetFullPath(FolderObject(client.key))
       IN \E status \in Statuses(client.type, "DELETE", server, key) :
             /\ server' = Stored(client.type, "DELETE", server, key, status)
             /\ client' = [client EXCEPT !.pc = "idle", !.outcome = "returned",
                                         !.response = 200]
    /\ UNCHANGED <<uploadVars, folderVars, handleVars, davVars, retryVars, partVars, signVars, chunkVars, routeVars>>

(***************************************************************************)
(* The upload of one file to a storage of type "webdev": handleUpload and  *)
(* uploadMultipart of routes/home.tsx, which do not read storage.type,     *)
(* over the upload routes and WebdevClient.  What the server holds under   *)
(* the upload path is the sequence of the chunks of the file it was sent.  *)
(***************************************************************************)
WebdevUploadId == 1      \* stands for the string `webdev-${Date.now()}`

\* the chunk size handleUpload works with when the loader gives none
WebdevChunkSize == CHUNK_SIZE(ChunkSizeMB(0))

\* the chunks of the file in file order: the body of a PUT of the whole file
WholeFile(size) == [i \in 1..TotalParts(size, WebdevChunkSize) |-> i]

NoDav == [size |-> 0, content |-> <<>>]

\* uploadSingle: the PUT of the file through the route and
\* WebdevClient.putObject is answered
WebdevSingleResponse ==
    /\ orch.phase = "single"
    /\ \E ok \in BOOLEAN :
          /\ dav' = [dav EXCEPT !.content = IF ok THEN WholeFile(dav.size) ELSE @]
          /\ orch' = [orch EXCEPT !.phase = IF ok THEN "done" ELSE "failed"]
    /\ UNCHANGED <<totalParts, localStorage, backend, nextUploadId, reloads>>
    /\ UNCHANGED <<folderVars, handleVars, clientVars, retryVars, partVars, signVars, chunkVars, routeVars>>

\* multipart-init answered 200: WebdevClient.initiateMultipartUpload sends
\* nothing to the server and returns a made-up upload id
WebdevInitOk ==
    /\ orch.phase = "init"
    /\ LET o1 == [orch EXCEPT !.uploadId = WebdevUploadId, !.phase = "urls"]
       IN /\ localStorage' = [SavedState(o1) EXCEPT !.parts = <<>>, !.useDirectUpload = TRUE]
          /\ orch' = o1
    /\ UNCHANGED <<totalParts, backend, nextUploadId, reloads, dav>>
    /\ UNCHANGED <<folderVars, handleVars, clientVars, retryVars, partVars, signVars, chunkVars, routeVars>>

\* a part upload of worker w answered 2xx.  The direct PUT goes to the URL of
\* the file itself (getSignedUploadPartUrl returns getSignedUrl), so the
\* server then holds that chunk alone; the proxy PUT ends in
\* WebdevClient.uploadPart, which drops the body and returns `${partNumber}`
WebdevPartOk(w) ==
    /\ w \in InFlight(orch)
    /\ dav' = [dav EXCEPT !.content = IF orch.workers[w].st = "direct"
                                      THEN <<orch.workers[w].part>> ELSE @]
    /\ LET o1 == Completed(orch, w)
       IN /\ localStorage' = Persist(o1)
          /\ orch' = AwaitAll(RunNext(o1, w))
    /\ UNCHANGED <<totalParts, backend, nextUploadId, reloads>>
    /\ UNCHANGED <<folderVars, handleVars, clientVars, retryVars, partVars, signVars, chunkVars, routeVars>>

\* multipart-complete answered 200: WebdevClient.completeMultipartUpload has
\* an empty body
WebdevCompleteOk ==
    /\ orch.phase = "complete"
    /\ Len(orch.completeReq) > 0
    /\ localStorage' = NoRecord
    /\ orch' = [orch EXCEPT !.phase = "done"]
    /\ UNCHANGED <<totalParts, backend, nextUploadId, reloads, dav>>
    /\ UNCHANGED <<folderVars, handleVars, clientVars, retryVars, partVars, signVars, chunkVars, routeVars>>

(***************************************************************************)
(* A second uploadMultipart of the same file after the first one threw.    *)
(* The promises of the workers of the first call are not cancelled: each   *)
(* goes on with its copy of the locals of that call.                       *)
(***************************************************************************)
MaxRetryParts == 3       \* parts of the file that is uploaded twice
MaxLiveParts == 3        \* parts of the file whose every request is answered
MaxSavedParts == 1       \* parts an interrupted transfer has recorded

\* handleUpload has caught the error of uploadMultipart and returned; the
\* same file is chosen again
Retry ==
    /\ orch.phase = "failed"
    /\ zombie.phase = "idle"
    /\ zombie' = orch
    /\ orch' = NoUpload
    /\ UNCHANGED <<totalParts, localStorage, backend, nextUploadId, reloads>>
    /\ UNCHANGED <<folderVars, handleVars, clientVars, davVars, partVars, signVars, chunkVars, routeVars>>

\* a part upload of worker w of the first call answered 2xx: its runNext
\* pushes the part, writes the record and takes the next part
ZombiePartOk(w) ==
    /\ w \in InFlight(zombie)
    /\ backend[zombie.uploadId].state = "open"
    /\ backend' = [backend EXCEPT ![zombie.uploadId].parts = @ \cup {zombie.workers[w].part}]
    /\ LET o1 == Completed(zombie, w)
       IN /\ localStorage' = Persist(o1)
          /\ zombie' = RunNext(o1, w)
    /\ UNCHANGED <<totalParts, nextUploadId, orch, reloads>>
    /\ UNCHANGED <<folderVars, handleVars, clientVars, davVars, partVars, signVars, chunkVars, routeVars>>

\* a part upload of worker w of the first call failed: the direct PUT falls
\* back to the proxy and writes the record, the proxy PUT rejects
ZombiePartFail(w) ==
    /\ w \in InFlight(zombie)
    /\ IF zombie.workers[w].st = "direct"
       THEN LET o1 == DirectFailed(zombie, w)
            IN /\ localStorage' = Persist(o1)
               /\ zombie' = [o1 EXCEPT !.workers[w].st = "proxy"]
       ELSE /\ zombie' = [zombie EXCEPT !.workers[w].st = "rejected"]
            /\ UNCHANGED localStorage
    /\ UNCHANGED <<totalParts, backend, nextUploadId, orch, reloads>>
    /\ UNCHANGED <<folderVars, handleVars, clientVars, davVars, partVars, signVars, chunkVars, routeVars>>

(***************************************************************************)
(* The result of one part upload: uploadPartDirect and uploadPartProxy of  *)
(* routes/home.tsx, the multipart-upload route and S3Client.uploadPart,    *)
(* for the parts one runNext takes in turn.                                *)
(***************************************************************************)
MaxPartUploads == 4      \* parts the runNext loop takes

NoEtag == <<>>           \* the empty string

\* xhr.onload of uploadPartDirect: a 2xx answer resolves, with "" for the
\* etag when the answer shows no ETag header
UploadPartDirect(status, etagHeader, partNumber) ==
    IF Ok(status)
    THEN [settled |-> "resolved",
          etag |-> IF etagHeader THEN EtagOf(partNumber) ELSE NoEtag]
    ELSE [settled |-> "rejected", etag |-> NoEtag]

\* S3Client.uploadPart after its fetch, the multipart-upload route around it
\* and xhr.onload of uploadPartProxy: a failed PUT or a missing ETag header
\* makes uploadPart throw, the route answer 500 and the promise reject
UploadPartProxy(status, etagHeader, partNumber) ==
    LET threw == ~Ok(status) \/ ~etagHeader
        routeStatus == IF threw THEN 500 ELSE 200
    IN IF Ok(routeStatus)
       THEN [settled |-> "resolved", etag |-> EtagOf(partNumber)]
       ELSE [settled |-> "rejected", etag |-> NoEtag]

NoPart ==
    [pc |-> "idle", partNumber |-> 0, useDirectUpload |-> TRUE,
     completedParts |-> <<>>, saved |-> <<>>, status |-> 0, etagHeader |-> FALSE]

\* runNext after `await uploadPart(item)` has resolved: the result is pushed
\* and saved, then the loop takes the next part or ends
PartResolved(p, result) ==
    LET parts == Append(p.completedParts,
                        [partNumber |-> p.partNumber, etag |-> result.etag])
    IN [p EXCEPT !.completedParts = parts, !.saved = parts,
                 !.partNumber = IF @ < MaxPartUploads THEN @ + 1 ELSE @,
                 !.pc = IF p.partNumber = MaxPartUploads THEN "done"
                        ELSE IF p.useDirectUpload THEN "direct" ELSE "proxy"]

\* runNext takes its first part, in direct or in proxy mode
PartStart ==
    /\ part.pc = "idle"
    /\ \E direct \in BOOLEAN :
          part' = [part EXCEPT !.partNumber = 1, !.useDirectUpload = direct,
                               !.pc = IF direct THEN "direct" ELSE "proxy"]
    /\ UNCHANGED <<uploadVars, folderVars, handleVars, clientVars, davVars, retryVars, signVars, chunkVars, routeVars>>

\* the direct PUT of the part is answered (status 0: no answer at all); a
\* rejection switches the transfer to proxy mode and sends the part again
PartDirectResponse ==
    /\ part.pc = "direct"
    /\ \E status \in {0, 200, 403}, etagHeader \in BOOLEAN :
          LET result == UploadPartDirect(status, etagHeader, part.partNumber)
              p1 == [part EXCEPT !.status = status, !.etagHeader = etagHeader]
          IN part' = IF result.settled = "resolved"
                     THEN PartResolved(p1, result)
                     ELSE [p1 EXCEPT !.useDirectUpload = FALSE, !.pc = "proxy"]
    /\ UNCHANGED <<uploadVars, folderVars, handleVars, clientVars, davVars, retryVars, signVars, chunkVars, routeVars>>

\* the PUT of S3Client.uploadPart is answered and with it the proxy PUT; a
\* rejection ends the loop
PartProxyResponse ==
    /\ part.pc = "proxy"
    /\ \E status \in {200, 500}, etagHeader \in BOOLEAN :
          LET result == UploadPartProxy(status, etagHeader, part.partNumber)
              p1 == [part EXCEPT !.status = status, !.etagHeader = etagHeader]
          IN part' = IF result.settled = "resolved"
                     THEN PartResolved(p1, result)
                     ELSE [p1 EXCEPT !.pc = "failed"]
    /\ UNCHANGED <<uploadVars, folderVars, handleVars, clientVars, davVars, retryVars, signVars, chunkVars, routeVars>>

(***************************************************************************)
(* S3Client.signRequest: AWS Signature Version 4.  SHA-256 and HMAC-SHA256 *)
(* are taken to be free of collisions: a digest is the record of what was  *)
(* digested.  Time is Date.now(), in milliseconds.                         *)
(***************************************************************************)
MaxDays == 1             \* days the clock covers beyond the first
MaxSeconds == 1          \* seconds of each day the clock covers beyond the first
MsPerSecond == 1000
SecondsPerDay == 86400

\* the values new Date() takes: the first and the last millisecond of the
\* first seconds of the first days
Timestamps ==
    {(d * SecondsPerDay + s) * MsPerSecond + ms :
        d \in 0..MaxDays, s \in 0..MaxSeconds, ms \in {0, MsPerSecond - 1}}

Sha256(message) == [sha256 |-> message]

HmacSha256(key, message) == [key |-> key, hmac |-> message]

\* an amzDate that keeps the day and drops the time of day
AmzDateOfDay(now) == ((now \div MsPerSecond) \div SecondsPerDay) * SecondsPerDay

\* now.toISOString().replace(/[:-]|\.\d{3}/g, ""): yyyymmddThhmmssZ, the time
\* with its milliseconds cut off, here as a count of seconds
AmzDate(now) == now \div MsPerSecond

\* amzDate.slice(0, 8): yyyymmdd, here as a count of days
DateStamp(amzDate) == amzDate \div SecondsPerDay

\* crypto.subtle.importKey("raw", key, HMAC): a key of no bytes is refused
ImportKeyThrows(key) == key = <<>>

\* new TextEncoder().encode("AWS4" + key), the secret being a sequence of
\* characters
KeyData(key) == <<"A", "W", "S", "4">> \o key

\* getSignatureKey throws where its first hmacSha256 cannot import the key
GetSignatureKeyThrows(key) == ImportKeyThrows(KeyData(key))

\* getSignatureKey
GetSignatureKey(key, dateStamp, region, service) ==
    LET kDate == HmacSha256(KeyData(key), dateStamp)
        kRegion == HmacSha256(kDate, region)
        kService == HmacSha256(kRegion, service)
    IN HmacSha256(kService, "aws4_request")

\* signRequest(method, path, queryParams, {}, payload, useUnsignedPayload)
\* called at time now: the signature of the Authorization header
SignRequest(config, request, now) ==
    LET amzDate == AmzDate(now)
        dateStamp == DateStamp(amzDate)
        payloadHash == IF request.useUnsignedPayload
                       THEN [sha256 |-> "UNSIGNED-PAYLOAD"]
                       ELSE Sha256(request.payload)
        headersToSign == [host |-> config.host, xAmzContentSha256 |-> payloadHash,
                          xAmzDate |-> amzDate]
        canonicalRequest == <<request.method, request.path, request.queryParams,
                              headersToSign, payloadHash>>
        credentialScope == <<dateStamp, config.region, "s3", "aws4_request">>
        stringToSign == <<"AWS4-HMAC-SHA256", amzDate, credentialScope,
                          Sha256(canonicalRequest)>>
        signingKey == GetSignatureKey(config.secretAccessKey, dateStamp,
                                      config.region, "s3")
    IN HmacSha256(signingKey, stringToSign)

\* signRequest throws where getSignatureKey does: nothing else in it can fail
SignRequestThrows(config) == GetSignatureKeyThrows(config.secretAccessKey)

\* the credentials of a configured storage
Config == [host |-> "endpoint", region |-> "auto", secretAccessKey |-> <<"k">>]

\* the credentials of a storage row whose secret is missing: rowToStorage
\* gives secretAccessKey ""
Configs == {Config, [Config EXCEPT !.secretAccessKey = <<>>]}

\* the requests that are signed
Requests ==
    [method : {"GET", "PUT", "DELETE"}, path : {"/bucket/a", "/bucket/b"},
     queryParams : {"", "list-type=2"}, payload : {""},
     useUnsignedPayload : BOOLEAN]

NoSign == [calls |-> 0, config |-> <<>>, request |-> <<>>, now |-> <<>>,
           signature |-> <<>>, threw |-> FALSE, fetched |-> FALSE]

\* a client method: const headers = await this.signRequest(...), then
\* fetch(url, {headers}); a throw of signRequest leaves the method before fetch
Signed(config, request, now) ==
    IF SignRequestThrows(config)
    THEN [signature |-> <<>>, threw |-> TRUE, fetched |-> FALSE]
    ELSE [signature |-> <<SignRequest(config, request, now)>>, threw |-> FALSE,
          fetched |-> TRUE]

\* the first call of signRequest for a request
SignFirst(config, request, now) ==
    /\ sign.calls = 0
    /\ LET r == Signed(config, request, now)
       IN sign' = [calls |-> 1, config |-> <<config>>, request |-> <<request>>,
                   now |-> <<now>>, signature |-> r.signature,
                   threw |-> r.threw, fetched |-> r.fetched]
    /\ UNCHANGED <<uploadVars, folderVars, handleVars, clientVars, davVars, retryVars, partVars, chunkVars, routeVars>>

\* a second call of signRequest for the same request with the same
\* credentials, at the same time or later
SignAgain(now) ==
    /\ sign.calls = 1
    /\ now >= sign.now[1]
    /\ LET r == Signed(sign.config[1], sign.request[1], now)
       IN sign' = [sign EXCEPT !.calls = 2, !.now = Append(@, now),
                      !.signature = @ \o r.signature,
                      !.threw = r.threw, !.fetched = r.fetched]
    /\ UNCHANGED <<uploadVars, folderVars, handleVars, clientVars, davVars, retryVars, partVars, chunkVars, routeVars>>

(***************************************************************************)
(* uploadMultipart: the upload queue of a file, one item for each part     *)
(* that remains, and the multipart-upload route's check of the part number *)
(* a proxy upload carries.                                                 *)
(***************************************************************************)
\* uploadQueue = remainingParts.map((partNumber) => ({partNumber,
\*     start: (partNumber - 1) * chunkSize,
\*     end: Math.min(partNumber * chunkSize, file.size)}))
UploadQueue(size, chunkSize, startPart) ==
    LET remainingParts == RemainingParts(TotalParts(size, chunkSize), startPart)
    IN [i \in 1..Len(remainingParts) |->
           [partNumber |-> remainingParts[i],
            start |-> (remainingParts[i] - 1) * chunkSize,
            end |-> Min(remainingParts[i] * chunkSize, size)]]

\* action === "multipart-upload": if (!uploadId || partNumber < 1) 400
MultipartUploadStatus(partNumber) == IF partNumber < 1 THEN 400 ELSE 200

NoChunks ==
    [pc |-> "idle", size |-> 0, chunkSize |-> 0, totalParts |-> 0, startPart |-> 0,
     uploadQueue |-> <<>>, index |-> 0, sent |-> <<>>]

\* uploadMultipart(file, uploadPath, chunkSize) for a file handleUpload sends
\* there, with startPart parts in the saved record: up to the upload queue
BuildQueue(chunkSizeMB, size, startPart) ==
    /\ chunks.pc = "idle"
    /\ LET chunkSize == CHUNK_SIZE(ChunkSizeMB(chunkSizeMB))
       IN /\ size \in FileSizes(chunkSize)
          /\ UseMultipart(size, chunkSize)
          /\ chunks' = [NoChunks EXCEPT
                           !.pc = "queued", !.size = size, !.chunkSize = chunkSize,
                           !.totalParts = TotalParts(size, chunkSize),
                           !.startPart = startPart,
                           !.uploadQueue = UploadQueue(size, chunkSize, startPart)]
    /\ UNCHANGED <<uploadVars, folderVars, handleVars, clientVars, davVars, retryVars, partVars, signVars, routeVars>>

\* the next item of the queue is sliced from the file and sent through the
\* proxy: file.slice(item.start, item.end), ?partNumber=item.partNumber
SendPart ==
    /\ chunks.pc = "queued"
    /\ chunks.index < Len(chunks.uploadQueue)
    /\ LET item == chunks.uploadQueue[chunks.index + 1]
       IN chunks' = [chunks EXCEPT
                        !.index = @ + 1,
                        !.sent = Append(@, [partNumber |-> item.partNumber,
                                            bytes |-> item.end - item.start,
                                            status |-> MultipartUploadStatus(item.partNumber)])]
    /\ UNCHANGED <<uploadVars, folderVars, handleVars, clientVars, davVars, retryVars, partVars, signVars, routeVars>>

(***************************************************************************)
(* The files route api.files.$storageId.$: who may do what.  A behaviour   *)
(* is one request, answered in one step; `calls` names the client methods  *)
(* its branch calls.                                                       *)
(***************************************************************************)
\* the rows of the sessions table that have not expired: session id -> user_type
SessionRows == [sg |-> "guest", sa |-> "admin"]

\* the session ids a Cookie header may carry: none, a guest's, the admin's, one
\* that is unknown or expired
Cookies == {"", "sg", "sa", "sx"}

\* requireAuth(request, db): isAdmin
RequireAuth(sessionId) ==
    IF sessionId = "" THEN [session |-> FALSE, isAdmin |-> FALSE]
    ELSE IF sessionId \notin DOMAIN SessionRows THEN [session |-> FALSE, isAdmin |-> FALSE]
    ELSE [session |-> TRUE, isAdmin |-> SessionRows[sessionId] = "admin"]

\* const uploadActions = [...]
UploadActions ==
    {"multipart-init", "multipart-urls", "multipart-upload", "multipart-complete",
     "multipart-abort"}

\* the values of ?action= ("" for none) and the methods of the requests
ActionNames == UploadActions \cup {"", "mkdir", "rename", "move", "fetch", "rmdir"}

Methods == {"POST", "PUT", "DELETE", "PATCH"}

\* const isUploadAction = uploadActions.includes(action || "") ||
\*     (method === "PUT" && !action) || (method === "POST" && !action)
IsUploadAction(method, action) ==
    \/ action \in UploadActions
    \/ method = "PUT" /\ action = ""
    \/ method = "POST" /\ action = ""

\* the permission check of action(): TRUE where the request goes on
ActionAllowed(isAdmin, guestUpload, method, action) ==
    LET canUpload == isAdmin \/ guestUpload
    IN IF IsUploadAction(method, action) THEN canUpload ELSE isAdmin

\* the answer of a branch that calls the client: 400 where the body is not
\* valid, else 200, or 500 where a call throws
Branch(valid, ok, calls) ==
    IF ~valid THEN [status |-> 400, calls |-> {}]
    ELSE [status |-> IF ok THEN 200 ELSE 500, calls |-> calls]

\* the branches of action() behind the permission check, in their order
Dispatch(method, action, valid, ok) ==
    CASE method = "POST" /\ action = "multipart-init" ->
            Branch(TRUE, ok, {"initiateMultipartUpload"})
      [] method = "POST" /\ action = "multipart-urls" ->
            Branch(valid, ok, {"getSignedUploadPartUrl"})
      [] method = "PUT" /\ action = "multipart-upload" ->
            Branch(valid, ok, {"uploadPart"})
      [] method = "POST" /\ action = "multipart-complete" ->
            Branch(valid, ok, {"completeMultipartUpload"})
      [] method = "POST" /\ action = "multipart-abort" ->
            Branch(valid, ok, {"abortMultipartUpload"})
      [] method = "POST" /\ action = "mkdir" ->
            Branch(TRUE, ok, {"createFolder"})
      [] method = "POST" /\ action \in {"rename", "move"} ->
            Branch(valid, ok, {"listObjects", "copyObject", "deleteObject"})
      [] method = "POST" /\ action = "fetch" ->
            Branch(valid, ok, {"fetch", "putObject"})
      [] method \in {"POST", "PUT"} ->
            Branch(valid, ok, {"putObject"})
      [] method = "DELETE" /\ action = "rmdir" ->
            Branch(TRUE, ok, {"listObjects", "deleteObject"})
      [] method = "DELETE" ->
            Branch(TRUE, ok, {"deleteObject"})
      [] OTHER -> [status |-> 405, calls |-> {}]

\* action({request, params, context}) for a storage that exists
Action(request) ==
    LET isAdmin == RequireAuth(request.cookie).isAdmin
    IN IF ~ActionAllowed(isAdmin, request.guestUpload, request.method, request.action)
       THEN [status |-> 403, calls |-> {}]
       ELSE Dispatch(request.method, request.action, request.valid, request.ok)

ActionRequests ==
    [cookie : Cookies, guestUpload : BOOLEAN, method : Methods, action : ActionNames,
     valid : BOOLEAN, ok : BOOLEAN]

\* a share test that takes every path beginning with the shared path
WithinSharePrefix(path, sharePath) ==
    path = sharePath \/ StartsWith(path, sharePath)

\* path === sharePath || path.startsWith(sharePath + "/")
WithinShare(path, sharePath) ==
    path = sharePath \/ StartsWith(path, sharePath \o <<"/">>)

\* getShareByToken found no share
NoShare == [found |-> FALSE, storageId |-> 0, filePath |-> <<>>]

\* what getShareByToken(db, shareToken) may return
Shares ==
    {NoShare} \cup [found : {TRUE}, storageId : {1, 2},
                    filePath : { <<"a">>, <<"a", "/", "b">> }]

\* the paths asked for
LoaderPaths == { <<"a">>, <<"a", "/", "b">>, <<"a", "b">>, <<"b">> }

\* the values of ?action= of a GET ("" for none)
LoaderActions == {"", "list", "download", "signed-url", "info", "other"}

\* loader({request, params, context}) for a storage that exists
Loader(request) ==
    LET viaToken == request.token # ""
        share == request.share
        shareVerified == /\ viaToken
                         /\ share.found
                         /\ share.storageId = request.storageId
                         /\ WithinShare(request.path, share.filePath)
        isAdmin == ~viaToken /\ RequireAuth(request.cookie).isAdmin
        canList == isAdmin \/ shareVerified \/ request.guestList
        canDownload == isAdmin \/ shareVerified \/ request.guestDownload
        listing == request.action \in {"list", ""}
    IN IF viaToken /\ ~shareVerified THEN [status |-> 403, calls |-> {}]
       ELSE IF listing /\ ~canList THEN [status |-> 403, calls |-> {}]
       ELSE IF ~listing /\ ~canDownload THEN [status |-> 403, calls |-> {}]
       ELSE CASE listing -> Branch(TRUE, request.ok, {"listObjects"})
              [] request.action = "download" -> Branch(TRUE, request.ok, {"getObject"})
              [] request.action = "signed-url" -> Branch(TRUE, request.ok, {"getSignedUrl"})
              [] request.action = "info" -> Branch(TRUE, request.ok, {"headObject"})
              [] OTHER -> [status |-> 400, calls |-> {}]

LoaderRequests ==
    [token : {"", "t"}, share : Shares, storageId : {1, 2}, path : LoaderPaths,
     cookie : {"", "sa"}, action : LoaderActions, guestList : BOOLEAN,
     guestDownload : BOOLEAN, ok : BOOLEAN]

NoRoute == [handler |-> "none", request |-> <<>>, status |-> 0, calls |-> {}]

\* a request with a method other than GET is answered by action()
ActionRequest(request) ==
    /\ route.handler = "none"
    /\ LET r == Action(request)
       IN route' = [handler |-> "action", request |-> request, status |-> r.status,
                    calls |-> r.calls]
    /\ UNCHANGED <<uploadVars, folderVars, handleVars, clientVars, davVars, retryVars, partVars, signVars, chunkVars>>

\* a GET is answered by loader()
LoaderRequest(request) ==
    /\ route.handler = "none"
    /\ LET r == Loader(request)
       IN route' = [handler |-> "loader", request |-> request, status |-> r.status,
                    calls |-> r.calls]
    /\ UNCHANGED <<uploadVars, folderVars, handleVars, clientVars, davVars, retryVars, partVars, signVars, chunkVars>>

(***************************************************************************)
(* The specifications.                                                     *)
(***************************************************************************)
UploadInit ==
    /\ totalParts \in 1..MaxParts
    /\ localStorage = NoRecord
    /\ backend = [u \in UploadIds |-> NoSession]
    /\ nextUploadId = 1
    /\ orch = NoUpload
    /\ reloads = 0

HandleIdle == handle = NoHandle

ClientIdle ==
    /\ server = <<>>
    /\ client = NoClient

WebdevIdle == dav = NoDav

RetryIdle == zombie = NoUpload

PartIdle == part = NoPart

SignIdle == sign = NoSign

ChunksIdle == chunks = NoChunks

RouteIdle == route = NoRoute

OthersIdle ==
    /\ ClientIdle /\ WebdevIdle /\ RetryIdle /\ PartIdle /\ SignIdle
    /\ ChunksIdle
    /\ RouteIdle

FolderIdle ==
    /\ bucket = <<>>
    /\ op = NoOp

Init == UploadInit /\ FolderIdle /\ HandleIdle /\ OthersIdle

Next ==
    \/ StartFresh
    \/ StartResume
    \/ StartDecline
    \/ AbortResponse
    \/ InitOk
    \/ InitFail
    \/ UrlsOk
    \/ UrlsFail
    \/ \E w \in Workers : PartOk(w)
    \/ \E w \in Workers : PartDirectFail(w)
    \/ \E w \in Workers : PartProxyFail(w)
    \/ CompleteOk
    \/ CompleteFail
    \/ Reload

Spec == Init /\ [][Next]_vars

UploadIdle ==
    /\ totalParts = 1
    /\ localStorage = NoRecord
    /\ backend = [u \in UploadIds |-> NoSession]
    /\ nextUploadId = 1
    /\ orch = NoUpload
    /\ reloads = 0

FolderInit ==
    /\ bucket \in {[k \in S |-> k] : S \in SUBSET SeedKeys}
    /\ op = NoOp

InitFolder == FolderInit /\ UploadIdle /\ HandleIdle /\ OthersIdle

NextFolder ==
    \/ \E path \in RequestPaths, newName \in NewNames : RenameRequest(path, newName)
    \/ \E path \in RequestPaths, destPath \in DestPaths : MoveRequest(path, destPath)
    \/ ListResponse
    \/ CopyResponse
    \/ DeleteResponse
    \/ MarkerResponse
    \/ FileCopyResponse
    \/ FileDeleteResponse
    \/ \E path \in RequestPaths : RmdirRequest(path)
    \/ RmdirListResponse
    \/ RmdirDeleteResponse
    \/ RmdirMarkerResponse

SpecFolder == InitFolder /\ [][NextFolder]_vars

\* the files chosen and the chunk size the page was loaded with
HandleInit ==
    \E loaded \in 0..MaxChunkSizeMB, n \in 0..MaxFiles :
       \E files \in [1..n -> FileSizes(CHUNK_SIZE(ChunkSizeMB(loaded)))] :
          handle = [NoHandle EXCEPT !.chunkSizeMB = ChunkSizeMB(loaded), !.files = files]

InitHandle == HandleInit /\ UploadIdle /\ FolderIdle /\ OthersIdle

NextHandle ==
    \/ HandleUpload
    \/ UploadResolved
    \/ UploadRejected

SpecHandle == InitHandle /\ [][NextHandle]_vars

\* the client of a storage that holds the seed resources
ClientInit ==
    /\ server = [k \in ClientSeed |-> k]
    /\ \E type \in ClientTypes : client = [NoClient EXCEPT !.type = type]

InitClient ==
    /\ ClientInit /\ UploadIdle /\ FolderIdle /\ HandleIdle
    /\ WebdevIdle /\ RetryIdle /\ PartIdle /\ SignIdle /\ ChunksIdle /\ RouteIdle

NextClient ==
    \/ \E prefix \in ListPrefixes : ListCall(prefix)
    \/ ListNextPage
    \/ \E key \in FileKeys("s3") : HeadCall(key)
    \/ \E key \in FileKeys("s3") : GetCall(key)
    \/ \E key \in FileKeys("s3") : PutCall(key)
    \/ \E folderPath \in FolderPaths : CreateFolderCall(folderPath)
    \/ \E key \in FileKeys("s3") : DeleteCall(key)
    \/ \E sourceKey \in FileKeys("webdev"), destKey \in CopyDests :
          CopyCall(sourceKey, destKey)
    \/ \E path \in FolderPaths : ClientRmdirRequest(path)
    \/ ClientRmdirListResponse
    \/ \E key \in ClientSeed : OtherClientDelete(key)
    \/ ClientRmdirDeleteResponse
    \/ ClientRmdirMarkerResponse

SpecClient == InitClient /\ [][NextClient]_vars

\* handleUpload has taken its route for a file of the storage of type
\* "webdev": uploadSingle is awaited, or uploadMultipart is at its start
WebdevInit ==
    /\ \E size \in FileSizes(WebdevChunkSize) \ {0} :
          /\ dav = [NoDav EXCEPT !.size = size]
          /\ totalParts = IF UseMultipart(size, WebdevChunkSize)
                          THEN TotalParts(size, WebdevChunkSize) ELSE 1
          /\ orch = IF UseMultipart(size, WebdevChunkSize)
                    THEN NoUpload ELSE [NoUpload EXCEPT !.phase = "single"]
    /\ localStorage = NoRecord
    /\ backend = [u \in UploadIds |-> NoSession]
    /\ nextUploadId = 1
    /\ reloads = 0

InitWebdev ==
    /\ WebdevInit /\ FolderIdle /\ HandleIdle
    /\ ClientIdle /\ RetryIdle /\ PartIdle /\ SignIdle /\ ChunksIdle /\ RouteIdle

NextWebdev ==
    \/ WebdevSingleResponse
    \/ StartFresh
    \/ WebdevInitOk
    \/ InitFail
    \/ UrlsOk
    \/ UrlsFail
    \/ \E w \in Workers : WebdevPartOk(w)
    \/ \E w \in Workers : PartDirectFail(w)
    \/ \E w \in Workers : PartProxyFail(w)
    \/ WebdevCompleteOk
    \/ CompleteFail

SpecWebdev == InitWebdev /\ [][NextWebdev]_vars

RetryInit ==
    /\ totalParts \in 1..MaxRetryParts
    /\ localStorage = NoRecord
    /\ backend = [u \in UploadIds |-> NoSession]
    /\ nextUploadId = 1
    /\ orch = NoUpload
    /\ reloads = 0
    /\ zombie = NoUpload

InitRetry ==
    /\ RetryInit /\ FolderIdle /\ HandleIdle
    /\ ClientIdle /\ WebdevIdle /\ PartIdle /\ SignIdle /\ ChunksIdle /\ RouteIdle

NextRetry ==
    \/ StartFresh
    \/ StartResume
    \/ StartDecline
    \/ AbortResponse
    \/ InitOk
    \/ InitFail
    \/ UrlsOk
    \/ UrlsFail
    \/ \E w \in Workers : PartOk(w)
    \/ \E w \in Workers : PartDirectFail(w)
    \/ \E w \in Workers : PartProxyFail(w)
    \/ CompleteOk
    \/ CompleteFail
    \/ Retry
    \/ \E w \in Workers : ZombiePartOk(w)
    \/ \E w \in Workers : ZombiePartFail(w)

SpecRetry == InitRetry /\ [][NextRetry]_vars

\* the transfer of a file whose every request is answered: a first upload, or
\* the upload of a file whose earlier transfer was interrupted with some of
\* its parts stored and recorded
LiveInit ==
    /\ totalParts \in 1..MaxLiveParts
    /\ orch = NoUpload
    /\ reloads = 0
    /\ \/ /\ localStorage = NoRecord
          /\ backend = [u \in UploadIds |-> NoSession]
          /\ nextUploadId = 1
       \/ \E done \in SUBSET (1..totalParts), direct \in BOOLEAN :
             /\ Cardinality(done) <= MaxSavedParts
             /\ \E parts \in [1..Cardinality(done) -> done] :
                   /\ Range(parts) = done
                   /\ localStorage =
                        [uploadId |-> 1,
                         parts |-> [i \in 1..Len(parts) |->
                                       [partNumber |-> parts[i], etag |-> EtagOf(parts[i])]],
                         useDirectUpload |-> direct, present |-> TRUE]
             /\ backend = [u \in UploadIds |->
                              IF u = 1 THEN [state |-> "open", parts |-> done]
                              ELSE NoSession]
             /\ nextUploadId = 2

InitLive ==
    /\ LiveInit /\ FolderIdle /\ HandleIdle
    /\ ClientIdle /\ WebdevIdle /\ RetryIdle /\ PartIdle /\ SignIdle /\ ChunksIdle /\ RouteIdle

\* the steps of a transfer in which no proxy part upload fails
NextLive ==
    \/ StartFresh
    \/ StartResume
    \/ StartDecline
    \/ AbortResponse
    \/ InitOk
    \/ InitFail
    \/ UrlsOk
    \/ UrlsFail
    \/ \E w \in Workers : PartOk(w)
    \/ \E w \in Workers : PartDirectFail(w)
    \/ CompleteOk
    \/ CompleteFail

\* a request of the transfer is answered
RequestAnswered ==
    \/ AbortResponse
    \/ InitOk
    \/ InitFail
    \/ UrlsOk
    \/ UrlsFail
    \/ \E w \in Workers : PartOk(w)
    \/ \E w \in Workers : PartDirectFail(w)
    \/ CompleteOk
    \/ CompleteFail

\* while requests are in flight one of them is answered at some time, well or
\* badly
EveryRequestAnswered == WF_vars(RequestAnswered)

SpecLive == InitLive /\ [][NextLive]_vars /\ EveryRequestAnswered

InitPart ==
    /\ PartIdle /\ UploadIdle /\ FolderIdle /\ HandleIdle
    /\ ClientIdle /\ WebdevIdle /\ RetryIdle /\ SignIdle /\ ChunksIdle /\ RouteIdle

NextPart ==
    \/ PartStart
    \/ PartDirectResponse
    \/ PartProxyResponse

SpecPart == InitPart /\ [][NextPart]_vars

InitSign ==
    /\ SignIdle /\ UploadIdle /\ FolderIdle /\ HandleIdle
    /\ ClientIdle /\ WebdevIdle /\ RetryIdle /\ PartIdle /\ ChunksIdle /\ RouteIdle

NextSign ==
    \/ \E config \in Configs, request \in Requests, now \in Timestamps :
          SignFirst(config, request, now)
    \/ \E now \in Timestamps : SignAgain(now)

SpecSign == InitSign /\ [][NextSign]_vars

\* the parts of the saved record uploadMultipart starts behind
StartParts == 0..(MaxChunks + 1)

InitChunks ==
    /\ ChunksIdle /\ UploadIdle /\ FolderIdle /\ HandleIdle
    /\ ClientIdle /\ WebdevIdle /\ RetryIdle /\ PartIdle /\ SignIdle /\ RouteIdle

NextChunks ==
    \/ \E chunkSizeMB \in 0..MaxChunkSizeMB, k \in 0..MaxChunks, d \in {-1, 0, 1},
          startPart \in StartParts :
          BuildQueue(chunkSizeMB, k * CHUNK_SIZE(ChunkSizeMB(chunkSizeMB)) + d, startPart)
    \/ SendPart

SpecChunks == InitChunks /\ [][NextChunks]_vars

InitRoute ==
    /\ RouteIdle /\ UploadIdle /\ FolderIdle /\ HandleIdle
    /\ ClientIdle /\ WebdevIdle /\ RetryIdle /\ PartIdle /\ SignIdle /\ ChunksIdle

NextRoute ==
    \/ \E request \in ActionRequests : ActionRequest(request)
    \/ \E request \in LoaderRequests : LoaderRequest(request)

SpecRoute == InitRoute /\ [][NextRoute]_vars

(***************************************************************************)
(* Properties of the upload.                                               *)
(***************************************************************************)
\* the <PartNumber> values of a CompleteMultipartUpload body, in body order
BodyPartNumbers(body) == [i \in 1..Len(body) |-> body[i].PartNumber]

\* a multipart-complete request has been sent by this run
CompleteSent == orch.completeReq # <<>>

\* the upload queue of this run has been built
QueueBuilt == orch.phase \in {"workers", "complete", "done"} \/ Started(orch) # {}
              \/ (orch.phase = "failed" /\ orch.uploadId # NoUploadId)

\* the part numbers the saved record held when this run took it over
RecordedAtResume == {orch.completedParts[i].partNumber : i \in 1..orch.startPart}

\* the worker whose part upload succeeds in this step was in the given mode
PartSucceeds(w, mode) ==
    /\ orch.workers[w].st = mode
    /\ Len(orch'.completedParts) = Len(orch.completedParts) + 1
    /\ orch'.completedParts[Len(orch'.completedParts)].partNumber = orch.workers[w].part
    /\ orch'.workers[w] # orch.workers[w]

\* a direct PUT is started in this step by worker w
DirectStarted(w) ==
    /\ orch'.workers[w].st = "direct"
    /\ orch'.workers[w] # orch.workers[w]

IsReload == reloads' = reloads + 1

\* C1: the complete request is only sent when completedParts holds every part
\* number 1..N exactly once, for fresh and for resumed uploads
C1_CompleteCoversEveryPartOnce ==
    CompleteSent =>
        /\ Len(orch.completeReq) = totalParts
        /\ Range(PartNumbers(orch.completeReq)) = 1..totalParts

\* C3: a resumed run queues exactly the part numbers of 1..N that the saved
\* record does not hold, and uploads no part the record already holds
C3_ResumeQueuesExactlyMissingParts ==
    (orch.resumed /\ QueueBuilt) =>
        /\ Range(orch.uploadQueue) = (1..totalParts) \ RecordedAtResume
        /\ \A w \in InFlight(orch) : orch.workers[w].part \notin RecordedAtResume

\* C4 as claimed: in a fresh upload, once the direct PUT of part k has failed,
\* no part numbered above k is uploaded through a direct PUT
C4_PartsAboveFailedUseProxy ==
    [][\A w \in Workers :
          (~orch.resumed /\ orch.firstFailed # 0 /\ PartSucceeds(w, "direct"))
              => orch.workers[w].part < orch.firstFailed]_vars

\* C4 as amended: in a fresh upload a part whose direct PUT fails is sent to
\* the proxy next, no direct PUT is started once a direct PUT has failed, and
\* the complete request lists exactly the parts 1..N in ascending order
C4_FailedPartRetriedLaterPartsProxied ==
    /\ [](~orch.resumed /\ CompleteSent =>
            BodyPartNumbers(CompleteMultipartUploadBody(orch.completeReq))
                = [i \in 1..totalParts |-> i])
    /\ [][~orch.resumed /\ ~IsReload =>
            \A w \in Workers :
               /\ (orch.workers[w].st = "direct" /\ orch'.workers[w] # orch.workers[w]
                   /\ ~PartSucceeds(w, "direct"))
                      => orch'.workers[w] = [st |-> "proxy", part |-> orch.workers[w].part]
               /\ (orch.firstFailed # 0) => ~DirectStarted(w)]_vars

C4_Witness ==
    /\ ~orch.resumed
    /\ totalParts = 5
    /\ orch.firstFailed = 3
    /\ CompleteSent
    /\ PartNumbers(orch.completeReq) # [i \in 1..totalParts |-> i]

StoredNotRecorded ==
    IF localStorage.present
    THEN backend[localStorage.uploadId].parts \ Range(PartNumbers(localStorage.parts))
    ELSE {}

\* the part numbers that reach the storage in this step
NewlyStored(u) == backend'[u].parts \ backend[u].parts

\* C6 as claimed: at most one part stored on the backend is missing from the
\* saved record, whenever the upload is interrupted
C6_AtMostOnePartLost == Cardinality(StoredNotRecorded) <= 1

\* C6 as amended: while a run owns the saved record, the record's parts list
\* equals completedParts; a part that reaches the storage while the run goes
\* on is in the record at the end of the same step; an interruption leaves
\* unrecorded only parts that were in flight, at most one per worker
C6_RecordFollowsEveryCompletedPart ==
    /\ []((localStorage.present /\ localStorage.uploadId = orch.uploadId) =>
             localStorage.parts = orch.completedParts)
    /\ [][\A u \in UploadIds :
             (backend'[u].state = "open" /\ backend[u].state = "open") =>
                IF IsReload
                THEN /\ NewlyStored(u) \subseteq {orch.workers[w].part : w \in InFlight(orch)}
                     /\ Cardinality(NewlyStored(u)) <= Cardinality(Started(orch))
                     /\ Cardinality(Started(orch)) <= CONCURRENT_UPLOADS
                ELSE /\ NewlyStored(u) \subseteq Range(PartNumbers(localStorage'.parts))
                     /\ NewlyStored(u) # {} => localStorage'.uploadId = u]_vars

C6_Witness ==
    /\ orch.phase = "idle"
    /\ reloads = 1
    /\ Cardinality(StoredNotRecorded) = 2
    /\ Len(localStorage.parts) = 1

\* the run sends its parts through the proxy: it was downgraded, or resumed
\* in proxy mode, or it obtained no signed URL
ProxyMode == QueueBuilt /\ (~orch.useDirectUpload \/ orch.signedUrls = {})

\* C7: while a transfer is in proxy mode at most 3 of its part uploads are in
\* flight, also after a downgrade and when no signed URL was obtained
C7_ProxyModeAtMostThreeInFlight ==
    ProxyMode => Cardinality(InFlight(orch)) <= PROXY_CONCURRENCY

\* C8: the part uploads in flight never exceed min(5, remaining parts), and a
\* run with no remaining part starts no worker and sends no part
C8_InFlightBoundedByPoolAndQueue ==
    /\ Cardinality(InFlight(orch)) <= Min(CONCURRENT_UPLOADS, Len(orch.uploadQueue))
    /\ Cardinality(Started(orch)) <= Min(CONCURRENT_UPLOADS, Len(orch.uploadQueue))
    /\ orch.index <= Len(orch.uploadQueue)

C8_Witness ==
    /\ totalParts = 6
    /\ Cardinality(InFlight(orch)) = CONCURRENT_UPLOADS
    /\ orch.index = 6

\* C9: the <Part> elements of the CompleteMultipartUpload body are in
\* ascending partNumber order and are the parts of the request, whatever the
\* order in which the workers completed them
C9_CompleteBodySortedByPartNumber ==
    CompleteSent =>
        LET body == CompleteMultipartUploadBody(orch.completeReq)
        IN /\ \A i \in 1..(Len(body) - 1) : body[i].PartNumber <= body[i + 1].PartNumber
           /\ Len(body) = Len(orch.completeReq)
           /\ \A p \in 1..totalParts :
                 Cardinality({i \in 1..Len(body) :
                     body[i] = [PartNumber |-> p, ETag |-> EtagOf(p)]})
                 = Cardinality({i \in 1..Len(orch.completeReq) :
                     orch.completeReq[i] = [partNumber |-> p, etag |-> EtagOf(p)]})

C9_Witness ==
    /\ CompleteSent
    /\ totalParts = 4
    /\ PartNumbers(orch.completeReq) = <<3, 1, 4, 2>>

\* C10: the saved record is removed when the complete request has succeeded
\* and in no other outcome of a started transfer (declining a resume discards
\* the stale record before the new transfer starts); after a failed part
\* upload or a failed complete request the record still holds the uploadId
\* and the recorded parts
C10_RecordRemovedOnlyAfterComplete ==
    /\ []((orch.phase = "failed" /\ orch.uploadId # NoUploadId) =>
            /\ localStorage.present
            /\ localStorage.uploadId = orch.uploadId
            /\ localStorage.parts = orch.completedParts)
    /\ [](orch.phase = "done" => ~localStorage.present)
    /\ [][(localStorage.present /\ ~localStorage'.present) =>
            \/ orch.phase = "complete" /\ orch'.phase = "done"
            \/ orch.phase = "abort" /\ orch'.phase = "init"]_vars

C10_Witness ==
    /\ orch.phase = "failed"
    /\ CompleteSent
    /\ localStorage.present
    /\ Len(localStorage.parts) = totalParts

\* worker w sends the proxy PUT of the part whose direct PUT has just failed
FallsBack(w) ==
    /\ orch.workers[w].st = "direct"
    /\ orch'.workers[w] = [st |-> "proxy", part |-> orch.workers[w].part]

\* worker w starts the upload of a part in this step, other than a fallback
AttemptStarted(w) ==
    /\ orch'.workers[w].st \in {"direct", "proxy"}
    /\ orch'.workers[w] # orch.workers[w]
    /\ ~FallsBack(w)

\* the queue positions handed out in this step
HandedOut == (orch.index + 1)..orch'.index

\* C11: within one run every part gets at most one direct and at most one
\* proxy attempt (each attempt takes a queue position of its own and the queue
\* holds no part twice, the only other attempt is the proxy PUT that follows
\* a failed direct PUT of the same part), and a failed proxy PUT rejects the
\* run for good: the part is not tried again and the run ends as failed
C11_OneDowngradeThenFatal ==
    /\ [](\A i, j \in 1..Len(orch.uploadQueue) :
            orch.uploadQueue[i] = orch.uploadQueue[j] => i = j)
    /\ [](\A w \in Workers : orch.workers[w].st = "rejected" => orch.phase = "failed")
    /\ [](orch.phase = "failed" => ~CompleteSent \/ \A w \in Workers : orch.workers[w].st # "rejected")
    /\ [][~IsReload =>
            /\ \A w \in Workers :
                  /\ AttemptStarted(w) =>
                        \E j \in HandedOut : orch'.uploadQueue[j] = orch'.workers[w].part
                  /\ (orch.workers[w].st = "direct" /\ orch'.workers[w] # orch.workers[w]
                      /\ ~PartSucceeds(w, "direct")) => FallsBack(w)
                  /\ orch.workers[w].st = "proxy" => orch'.workers[w].st # "direct"
                                                     \/ AttemptStarted(w)
                  /\ orch.workers[w].st = "rejected" => orch'.workers[w] = orch.workers[w]
            /\ Cardinality({w \in Workers : AttemptStarted(w)}) = Cardinality(HandedOut)
            /\ orch.phase = "failed" => orch'.phase = "failed"]_vars

C11_Witness ==
    /\ ~orch.resumed
    /\ totalParts = 6
    /\ orch.phase = "failed"
    /\ orch.firstFailed = 2
    /\ \E w \in Workers : orch.workers[w] = [st |-> "rejected", part |-> 2]
    /\ \E w \in Workers : orch.workers[w].st = "proxy" /\ orch.workers[w].part = 6

\* C12: a declined resume sends the abort for the uploadId of the record; when
\* that request is over, failed or not, the record is removed and
\* multipart-init is sent with no uploadId and no completed part; the record
\* written after the init names the new session with an empty parts list, and
\* the parts a run that did not resume holds are parts of its own session
C12_DeclineDiscardsStaleSession ==
    /\ [](orch.phase = "abort" => localStorage.present)
    /\ [](~orch.resumed /\ orch.uploadId # NoUploadId
            /\ backend[orch.uploadId].state = "open" =>
               Range(PartNumbers(orch.completedParts)) \subseteq backend[orch.uploadId].parts)
    /\ [][~IsReload =>
            /\ (orch.phase = "abort" /\ orch' # orch) =>
                  /\ ~localStorage'.present
                  /\ orch'.phase = "init"
                  /\ orch'.uploadId = NoUploadId
                  /\ orch'.completedParts = <<>>
                  /\ \A u \in UploadIds : backend'[u] # backend[u] =>
                        u = localStorage.uploadId /\ backend'[u].state = "aborted"
            /\ (orch.phase = "init" /\ orch'.phase \notin {"init", "failed"}) =>
                  /\ backend[orch'.uploadId].state = "none"
                  /\ backend'[orch'.uploadId] = [state |-> "open", parts |-> {}]
                  /\ localStorage' = [uploadId |-> orch'.uploadId, parts |-> <<>>,
                                      useDirectUpload |-> TRUE, present |-> TRUE]
                  /\ orch'.completedParts = <<>>
                  /\ orch'.startPart = 0]_vars

C12_Witness ==
    /\ reloads = 1
    /\ ~orch.resumed
    /\ orch.phase = "urls"
    /\ orch.uploadId = 2
    /\ backend[1].state = "open"
    /\ backend[1].parts # {}
    /\ localStorage = [uploadId |-> 2, parts |-> <<>>, useDirectUpload |-> TRUE, present |-> TRUE]

\* C13: an accepted resume takes the uploadId of the record and sends no
\* multipart-init: the run never waits for an init response, no session is
\* created while it runs, its uploadId does not change, and its part uploads
\* and its complete request change the session of that uploadId only
C13_ResumeKeepsRecordedUploadId ==
    /\ [](orch.resumed =>
            /\ orch.phase # "init"
            /\ orch.uploadId # NoUploadId
            /\ backend[orch.uploadId].state # "none"
            /\ localStorage.present => localStorage.uploadId = orch.uploadId)
    /\ [][/\ (orch.phase = "idle" /\ orch'.resumed) =>
                 /\ orch'.uploadId = localStorage.uploadId
                 /\ UNCHANGED <<nextUploadId, backend>>
          /\ (orch.resumed /\ ~IsReload) =>
                 /\ orch'.uploadId = orch.uploadId
                 /\ nextUploadId' = nextUploadId
                 /\ \A u \in UploadIds : backend'[u] # backend[u] => u = orch.uploadId]_vars

C13_Witness ==
    /\ orch.resumed
    /\ orch.phase = "done"
    /\ orch.uploadId = 1
    /\ nextUploadId = 2
    /\ backend[1].state = "completed"
    /\ totalParts = 3

(***************************************************************************)
(* Properties of rename and move.                                          *)
(***************************************************************************)
\* the keys the request copies and then deletes
SourceKeys == IF op.isDirectory THEN Range(op.keysToMove) ELSE {op.path}

\* the copyObject calls the request makes when none fails
CopiesNeeded == IF op.isDirectory THEN Len(op.keysToMove) ELSE 1

\* C2: in rename and move every copyObject call has returned successfully
\* before the first deleteObject is issued, no copy follows a delete, and
\* when a copy fails no source key is deleted or changed
C2_CopyAllThenDeleteAll ==
    /\ [](op.deletes > 0 =>
            /\ op.copies = CopiesNeeded
            /\ op.failedIn \notin {"list", "copy"})
    /\ [](op.failedIn = "copy" =>
            /\ op.deletes = 0
            /\ \A k \in SourceKeys :
                  (k \in DOMAIN op.before) => (k \in DOMAIN bucket /\ bucket[k] = op.before[k]))
    /\ [][/\ op.deletes > 0 => op'.copies = op.copies
          /\ \A k \in DOMAIN bucket :
                (k \notin DOMAIN bucket') => (op.deletes > 0 /\ op.copies = CopiesNeeded)]_vars

C2_Witness ==
    /\ op.kind = "rename"
    /\ op.pc = "delete"
    /\ op.copies = 3
    /\ op.deletes = 2
    /\ <<"a", "/", "a">> \notin DOMAIN bucket
    /\ <<"b", "/", "a">> \in DOMAIN bucket

\* the keys the multi-key loops of the request run over
LoopKeys == IF op.kind = "rmdir" THEN op.keysToDelete ELSE op.keysToMove

\* a directory request (rename, move or rmdir of a folder) has answered
Answered(kind) == op.kind = kind /\ op.isDirectory /\ op.pc = "done"

\* the keys of files (no trailing slash) under a prefix
FilesUnder(objects, prefix) ==
    {k \in DOMAIN objects : StartsWith(k, prefix) /\ ~EndsWithSlash(k)}

\* the folders below a prefix: every proper extension of the prefix that ends
\* in "/" and is the beginning of a key
DirsUnder(objects, prefix) ==
    UNION {{SubSeq(k, 1, j) : j \in {j \in 1..Len(k) : j > Len(prefix) /\ k[j] = "/"}} :
              k \in {k \in DOMAIN objects : StartsWith(k, prefix)}}

\* C16: a directory rename, move or rmdir in which a per-key copy or delete
\* has failed goes on to the last key and answers 200 with its counts
C16_PerKeyFailuresAreCounted ==
    (op.pc = "done" /\ op.isDirectory /\ op.failedIn \in {"copy", "delete"}) =>
        /\ op.status = 200
        /\ op.i = Len(LoopKeys)

C18_NothingLeftUnderOldPrefix ==
    ((Answered("rename") \/ Answered("move")) /\ op.status = 200) =>
        /\ \A k \in DOMAIN bucket : ~StartsWith(k, op.oldPrefix)
        /\ \A k \in DOMAIN op.before :
              (StartsWith(k, op.oldPrefix) /\ k # op.oldPrefix) =>
                 (op.newPrefix \o SubSeq(k, Len(op.oldPrefix) + 1, Len(k))) \in DOMAIN bucket

\* C19: after rmdir has answered 200 no key that begins with the folder's
\* path is left in the bucket
C19_RmdirLeavesNoKey ==
    (Answered("rmdir") /\ op.status = 200) =>
        \A k \in DOMAIN bucket : ~StartsWith(k, FolderObject(op.path))

\* C20: the listing of rename and move holds every file key under the old
\* prefix once, whatever the number of pages, and the listing of rmdir every
\* file key and every sub-folder below the path once; a listing that goes on
\* with the same prefix asks for the page behind the token it was given
C20_ListingFollowsEveryPage ==
    /\ [](op.kind \in {"rename", "move"} /\ op.pc \in {"copy", "delete", "marker"} =>
            /\ Range(op.keysToMove) = FilesUnder(op.before, op.oldPrefix)
            /\ Len(op.keysToMove) = Cardinality(Range(op.keysToMove)))
    /\ [](op.kind = "rmdir" /\ op.pc \in {"rdelete", "rmarker"} =>
            /\ Range(op.keysToDelete) =
                  FilesUnder(op.before, FolderObject(op.path))
                     \cup DirsUnder(op.before, FolderObject(op.path))
            /\ Len(op.keysToDelete) = Cardinality(Range(op.keysToDelete)))
    /\ [][(op.pc = "list" /\ op'.pc = "list") =>
             op'.continuationToken > op.continuationToken]_vars

C20_Witness ==
    /\ op.kind = "rmdir"
    /\ op.pc = "rdelete"
    /\ op.path = <<"a">>
    /\ op.keysToDelete = << <<"a", "/", "a">>, <<"a", "/", "b">>,
                            <<"a", "/", "b", "/", "a">>, <<"a", "/", "b", "/">> >>
    /\ <<"a", "/">> \in DOMAIN bucket

(***************************************************************************)
(* Properties of handleUpload.                                             *)
(***************************************************************************)
\* the file whose upload handleUpload awaits
CurrentSize == handle.files[handle.i]

C15_ExactThresholdIsSinglePut ==
    handle.pc = "awaiting" =>
        /\ CurrentSize = handle.chunkSizeMB * 1024 * 1024
               => handle.call.route = "uploadSingle"
        /\ CurrentSize = handle.chunkSizeMB * 1024 * 1024 + 1
               => /\ handle.call.route = "uploadMultipart"
                  /\ handle.call.totalParts = 2

(***************************************************************************)
(* Properties of the storage clients.                                      *)
(***************************************************************************)
\* the rmdir request has answered 500 because a deleteObject of its delete
\* loop threw
DeleteLoopThrew ==
    /\ client.call = "rmdir"
    /\ client.response = 500
    /\ client.i > 0

\* C21: the rmdir request never fails because the storage answered "not
\* found" to a deleteObject of its delete loop, whichever client it uses
C21_DeleteOfMissingKeyNeverFailsRmdir ==
    ~(DeleteLoopThrew /\ client.status = 404)

\* C22: every entry a listObjects call returns has a key that does not start
\* with "/", and every directory entry has a key that ends in "/"
C22_ListedKeysAreWellFormed ==
    (client.call = "listObjects" /\ client.outcome = "returned") =>
        \A i \in 1..Len(client.objects) :
            /\ ~StartsWith(client.objects[i].key, <<"/">>)
            /\ client.objects[i].isDirectory => EndsWithSlash(client.objects[i].key)

\* the entries of every page S3Client.listObjects returns for a prefix
Entries(prefix) ==
    UNION {Range(ListObjectsDelimited(server, prefix, MaxKeys, t).objects) :
              t \in 0..Cardinality(DOMAIN server)}

\* key.split("/").pop()
Basename(key) == Substring(key, ThroughLastSlash(key))

\* C23: through S3Client, once putObject(key) has returned the listing of the
\* parent of key has a file entry named after the last segment of key, and
\* once createFolder(p) has returned the listing of the parent of p has a
\* directory entry for p whose key ends in "/"
C23_PutThenListRoundTrip ==
    client.type = "s3" =>
        /\ (client.call = "putObject" /\ client.outcome = "returned") =>
              \E e \in Entries(ParentOf(GetFullPath(client.key))) :
                  /\ e.name = Basename(GetFullPath(client.key))
                  /\ ~e.isDirectory
        /\ (client.call = "createFolder" /\ client.outcome = "returned") =>
              \E e \in Entries(ParentOf(GetFullPath(client.key))) :
                  /\ e.key = GetFullPath(FolderObject(client.key))
                  /\ e.isDirectory
                  /\ EndsWithSlash(e.key)

\* C24: headObject returns null when the storage answers 404 and throws on
\* every other status that is not a success; getObject throws on 404
C24_HeadNullOn404GetThrows ==
    /\ client.call = "headObject" =>
          /\ client.status = 404 => client.outcome = "null"
          /\ (client.status # 404 /\ ~Ok(client.status)) => client.outcome = "threw"
    /\ (client.call = "getObject" /\ client.status = 404) => client.outcome = "threw"

\* headObject of the WebDAV client has returned null for a key the storage
\* does not hold
C24_Witness ==
    /\ client.type = "webdev"
    /\ client.call = "headObject"
    /\ client.status = 404
    /\ client.outcome = "null"
    /\ GetFullPath(client.key) \notin DOMAIN server

(***************************************************************************)
(* Properties of the upload to a WebDAV storage.                           *)
(***************************************************************************)
\* C25: an upload to a storage of type "webdev" that ends in success was one
\* PUT of the file: the server holds every chunk of the file under the path
C25_WebdevSuccessStoresTheFile ==
    orch.phase = "done" => dav.content = WholeFile(dav.size)

(***************************************************************************)
(* Properties of the ways a transfer stops.                                *)
(***************************************************************************)
\* a step in which a worker's part upload ends and the worker takes no other
\* part, although parts are still queued and the transfer has not failed
WorkerStopsBetweenParts ==
    /\ Next
    /\ orch'.phase = "workers"
    /\ orch'.index = orch.index
    /\ Cardinality(InFlight(orch')) < Cardinality(InFlight(orch))

\* C26: a running transfer can be cancelled: while part uploads are in flight
\* and parts are still queued, a worker can end its part and start no other
C26_RunningTransferCanBeCancelled ==
    (orch.phase = "workers" /\ InFlight(orch) # {}
        /\ orch.index < Len(orch.uploadQueue))
    => ENABLED WorkerStopsBetweenParts

\* uploadMultipart has thrown because a part upload through the proxy failed
Errored ==
    /\ orch.phase = "failed"
    /\ \E w \in Workers : orch.workers[w].st = "rejected"

\* C27: once the transfer has failed on a part upload, no step of its workers
\* takes another part from the queue or writes the resume record
C27_ErroredTransferIsQuiet ==
    [][(Errored /\ ~IsReload) =>
          (orch'.index = orch.index /\ localStorage' = localStorage)]_vars

\* C28: at most one uploadMultipart call at a time has part uploads in flight
\* whose completion writes the resume record of the file, also when the
\* upload is started again after a failure
C28_OneWriterOfTheRecord ==
    ~(InFlight(zombie) # {} /\ InFlight(orch) # {})

(***************************************************************************)
(* Properties of the result of a part upload.                              *)
(***************************************************************************)
\* C29: no part whose upload was answered without an ETag is in
\* completedParts or in the saved parts list, on the direct path and on the
\* proxy path
C29_NoPartWithoutEtagIsRecorded ==
    /\ \A i \in 1..Len(part.completedParts) : part.completedParts[i].etag # NoEtag
    /\ \A i \in 1..Len(part.saved) : part.saved[i].etag # NoEtag

(***************************************************************************)
(* Properties of the signature.                                            *)
(***************************************************************************)
\* the same request has been signed twice with the same credentials
SignedTwice == sign.calls = 2

\* the second of the clock a call was made in
SecondOfCall(n) == sign.now[n] \div MsPerSecond

\* the day of the clock a call was made on
DayOfCall(n) == SecondOfCall(n) \div SecondsPerDay

\* C30 as stated: two signing calls for the same request and credentials at
\* different times give different signatures
C30_DifferentTimesDifferentSignatures ==
    (SignedTwice /\ sign.now[1] # sign.now[2]) =>
        sign.signature[1] # sign.signature[2]

\* C30: two signing calls for the same request and credentials at times that
\* lie in different seconds give different signatures
C30_DifferentSecondsDifferentSignatures ==
    (SignedTwice /\ SecondOfCall(1) # SecondOfCall(2)) =>
        sign.signature[1] # sign.signature[2]

\* the second call came one second after the first, on the same day
C30_Witness ==
    /\ SignedTwice
    /\ SecondOfCall(2) = SecondOfCall(1) + 1
    /\ DayOfCall(2) = DayOfCall(1)
    /\ sign.signature[1] # sign.signature[2]

\* signRequest has been called with credentials whose secret is empty
EmptySecret == sign.calls >= 1 /\ sign.config[1].secretAccessKey = <<>>

\* C31: signing with an empty secret fails with an error, gives no signature
\* and sends no request; signing with a non-empty secret never fails
C31_EmptySecretFailsFast ==
    sign.calls >= 1 =>
        IF EmptySecret
        THEN sign.threw /\ sign.signature = <<>> /\ ~sign.fetched
        ELSE ~sign.threw /\ Len(sign.signature) = sign.calls

(***************************************************************************)
(* Properties of WebdevClient.copyObject.                                  *)
(***************************************************************************)
\* copyObject of the WebDAV client has returned or thrown
CopyCalled == client.call = "copyObject"

\* C32: WebDAV copyObject sends COPY to the URL of the source key with the
\* Destination header naming the destination key and Overwrite: F, and a
\* copy that returns has left the source's content at the destination
C32_CopyIsSentToTheSource ==
    CopyCalled =>
        /\ client.request.url = GetFullPath(client.request.sourceKey)
        /\ client.request.Destination = GetFullPath(client.request.destKey)
        /\ client.request.Overwrite = "F"
        /\ client.outcome = "returned" =>
              /\ client.request.destKey \in DOMAIN server
              /\ server[client.request.destKey] = server[client.request.sourceKey]

(***************************************************************************)
(* Properties of rename and move: where the content is afterwards.         *)
(***************************************************************************)
\* a rename or a move has answered 200
RenamedOrMoved ==
    op.kind \in {"rename", "move"} /\ op.pc = "done" /\ op.status = 200

\* the content the bucket held under key when the request arrived is now
\* held under newKey
ContentAt(key, newKey) ==
    /\ GetFullPath(newKey) \in DOMAIN bucket
    /\ bucket[GetFullPath(newKey)] = op.before[GetFullPath(key)]

\* the computed new path is the path of the request itself
OntoItself ==
    IF op.isDirectory THEN op.newPrefix = op.oldPrefix ELSE op.newPath = op.path

\* C33: after a rename or move has answered 200, the content of the file, or
\* of every key moved with the directory, is at its new path, also where the
\* new path equals the old one
C33_ContentIsAtTheNewPath ==
    RenamedOrMoved =>
        IF op.isDirectory
        THEN \A i \in 1..Len(op.keysToMove) :
                ContentAt(op.keysToMove[i], NewKey(op, op.keysToMove[i]))
        ELSE ContentAt(op.path, op.newPath)

(***************************************************************************)
(* Properties of the shared queue of one run.                              *)
(***************************************************************************)
\* the part numbers this run has appended to completedParts, in order
NewlyCompleted ==
    SubSeq(PartNumbers(orch.completedParts), orch.startPart + 1,
           Len(orch.completedParts))

\* the workers of this run that have taken part number p and not completed it
Holding(p) ==
    {w \in Workers : /\ orch.workers[w].st \in {"direct", "proxy", "rejected"}
                     /\ orch.workers[w].part = p}

\* how often this run has taken part number p from the queue: once for each
\* worker that holds it and once for each time it was appended
TimesTaken(p) ==
    Cardinality(Holding(p))
        + Cardinality({i \in 1..Len(NewlyCompleted) : NewlyCompleted[i] = p})

\* C34: every queue position handed out so far was taken by exactly one
\* worker and no later one by any, so no part number is uploaded by two
\* workers; once the workers have all finished without a failure every queued
\* part number has been appended to completedParts exactly once
C34_EachQueuedPartTakenOnce ==
    /\ \A i \in 1..Len(orch.uploadQueue) :
          TimesTaken(orch.uploadQueue[i]) = IF i <= orch.index THEN 1 ELSE 0
    /\ orch.phase \in {"complete", "done"} =>
          /\ Len(NewlyCompleted) = Len(orch.uploadQueue)
          /\ Range(NewlyCompleted) = Range(orch.uploadQueue)

\* a run of two or more workers has emptied a queue of three or more parts
\* and sent complete
C34_Witness ==
    /\ orch.phase = "complete"
    /\ Len(orch.uploadQueue) >= 3
    /\ Cardinality(Started(orch)) >= 2
    /\ Len(NewlyCompleted) = Len(orch.uploadQueue)

\* a part upload of this run has failed for good
FailedFatally == \E w \in Workers : orch.workers[w].st = "rejected"

\* C35: once complete has been sent the queue is drained and every worker of
\* the run has finished, none in flight and none rejected; a run with a part
\* upload that failed for good has not sent complete
C35_CompleteOnlyAfterAllWorkers ==
    /\ CompleteSent =>
          /\ orch.index = Len(orch.uploadQueue)
          /\ \A w \in Workers : orch.workers[w].st \in {"unused", "finished"}
    /\ FailedFatally => ~CompleteSent

\* complete has been sent by a run of two or more workers in which a direct
\* upload failed and was made up for through the proxy
C35_Witness ==
    /\ CompleteSent
    /\ orch.phase = "complete"
    /\ orch.firstFailed # 0
    /\ Cardinality(Started(orch)) >= 2
    /\ InFlight(orch) = {}

(***************************************************************************)
(* Progress of a transfer whose requests are all answered.                 *)
(***************************************************************************)
\* uploadMultipart is running
Transferring == orch.phase \in {"abort", "init", "urls", "workers"}

\* uploadMultipart holds an uploadId: multipart-init has answered 200, or
\* the transfer has taken over a recorded session
SessionHeld == orch.phase \in {"urls", "workers"}

\* the record is gone once complete has succeeded
RecordRemovedOnSuccess == orch.phase = "done" => ~localStorage.present

\* C36 as stated: a transfer whose requests are all answered and whose proxy
\* part uploads do not fail sends complete at some time, and a successful
\* complete removes the record
C36_AnsweredTransferSendsComplete ==
    /\ Transferring ~> CompleteSent
    /\ []RecordRemovedOnSuccess

\* C36: a transfer whose requests are all answered, whose session was opened
\* or taken over and whose proxy part uploads do not fail sends complete at
\* some time, whatever direct uploads fail, and a successful complete removes
\* the record
C36_OpenedTransferSendsComplete ==
    /\ SessionHeld ~> CompleteSent
    /\ []RecordRemovedOnSuccess

\* complete has succeeded and the record is gone after a direct upload of
\* the transfer had failed
C36_Witness ==
    /\ orch.phase = "done"
    /\ orch.firstFailed # 0
    /\ ~localStorage.present
    /\ Len(orch.uploadQueue) >= 2

(***************************************************************************)
(* Properties of the upload queue.                                         *)
(***************************************************************************)
\* the queue of a file has been built
Queued == chunks.pc = "queued"

\* C37: the byte ranges of the queued parts are non-empty, pairwise disjoint
\* and lie end to end from the first byte that remains (byte 0 when nothing
\* was recorded) to the end of the file, so that they cover it exactly; every
\* part number queued or sent lies in 1..totalParts and passes the route's
\* check
C37_RangesPartitionTheFile ==
    Queued =>
        LET q == chunks.uploadQueue
        IN /\ \A i \in 1..Len(q) : q[i].start < q[i].end
           /\ \A i, j \in 1..Len(q) : i < j => q[i].end <= q[j].start
           /\ \A i \in 1..(Len(q) - 1) : q[i].end = q[i + 1].start
           /\ chunks.startPart < chunks.totalParts =>
                 /\ Len(q) = chunks.totalParts - chunks.startPart
                 /\ q[1].start = chunks.startPart * chunks.chunkSize
                 /\ q[Len(q)].end = chunks.size
           /\ \A i \in 1..Len(q) : q[i].partNumber \in 1..chunks.totalParts
           /\ \A i \in 1..Len(chunks.sent) :
                 /\ chunks.sent[i].partNumber \in 1..chunks.totalParts
                 /\ chunks.sent[i].status # 400
                 /\ chunks.sent[i].bytes > 0

\* every part of a new file of three parts or more, the last one shorter than
\* a chunk, has been sent
C37_Witness ==
    /\ Queued
    /\ chunks.startPart = 0
    /\ chunks.totalParts >= 3
    /\ Len(chunks.sent) = chunks.totalParts
    /\ chunks.uploadQueue[1].start = 0
    /\ chunks.sent[chunks.totalParts].bytes < chunks.chunkSize

(***************************************************************************)
(* Properties of the files route.                                          *)
(***************************************************************************)
\* the caller of the last request holds the admin's session
AdminCaller == route.request.cookie = "sa"

UploadCalls ==
    {"putObject", "initiateMultipartUpload", "getSignedUploadPartUrl", "uploadPart",
     "completeMultipartUpload", "abortMultipartUpload"}

AdminOnlyCalls == {"deleteObject", "copyObject", "createFolder", "fetch"}

\* C38: a request of a caller who is not the admin causes no deleteObject,
\* copyObject, createFolder or offline fetch, causes putObject or a multipart
\* call only on a storage with guestUpload, and is answered 403 without any
\* call where it is refused
C38_GuestsOnlyUpload ==
    (route.handler = "action" /\ ~AdminCaller) =>
        /\ route.calls \cap AdminOnlyCalls = {}
        /\ route.calls \cap UploadCalls # {} => route.request.guestUpload
        /\ ~route.request.guestUpload => route.status = 403
        /\ route.status = 403 => route.calls = {}

\* the path lies beneath the shared path: the shared path, a "/", and more
Beneath(path, sharePath) ==
    /\ Len(path) > Len(sharePath) + 1
    /\ SubSeq(path, 1, Len(sharePath)) = sharePath
    /\ path[Len(sharePath) + 1] = "/"

\* the token of the last request resolves to a share of the requested storage
\* that holds the requested path
ShareCovers(request) ==
    /\ request.share.found
    /\ request.share.storageId = request.storageId
    /\ \/ request.path = request.share.filePath
       \/ Beneath(request.path, request.share.filePath)

\* C39: a read request with a share token whose share does not cover the
\* requested storage and path is answered 403 without a call of the client,
\* whatever session it carries; one that is served has a share that covers it
C39_ShareTokenBoundsTheRead ==
    (route.handler = "loader" /\ route.request.token # "") =>
        IF ShareCovers(route.request)
        THEN route.status # 403
        ELSE route.status = 403 /\ route.calls = {}

\* a path beneath the shared path has been read with the token alone, on a
\* storage closed to guests
C39_Witness ==
    /\ route.handler = "loader"
    /\ route.request.token # ""
    /\ route.request.cookie = ""
    /\ ~route.request.guestList /\ ~route.request.guestDownload
    /\ Beneath(route.request.path, route.request.share.filePath)
    /\ route.calls # {}

====
